---- MODULE Spec2Model ----
(***************************************************************************)
(* Model of the Triton AI query orchestration layer:                       *)
(*   backend/services/aiOrchestrator.js  (AIOrchestrator)                  *)
(*   backend/services/cacheService.js    (CacheService)                    *)
(*   backend/config/aiConfig.js          (aiConfig)                        *)
(* Every `await` of the source is a point where other callbacks may run,   *)
(* so each action below is the code between two awaits.                    *)
(***************************************************************************)
EXTENDS Integers, Sequences, FiniteSets, TLC

VARIABLES
  modelStatus,        \* this.modelStatus {deepseekAvailable, phi3Available, lastChecked}
  offlineMode,        \* this.offlineMode
  checks,             \* the _checkModelStatus invocations in flight
  isConnected,        \* cacheService.isConnected
  redisStore,         \* the Redis server's keys: key -> [value, expireAt]
  memoryCache,        \* cacheService.memoryCache      (Map key -> serialized)
  memoryCacheExpiry,  \* cacheService.memoryCacheExpiry (Map key -> ms timestamp)
  now,                \* Date.now() / performance.now(), in ms
  calls,              \* the processQuery invocations
  lastCall,           \* the latest direct call of a CacheService method, with its return
  written,            \* history, per key: the latest set() that succeeded and is in force
  thisTaskRouting,    \* aiOrchestrator.taskRouting
  responses           \* per HTTP request: the responses its handler has sent

healthVars == <<modelStatus, offlineMode, checks>>
cacheVars  == <<isConnected, redisStore, memoryCache, memoryCacheExpiry>>
apiVars    == <<lastCall, written>>
webVars    == <<thisTaskRouting, responses>>
vars == <<modelStatus, offlineMode, checks, isConnected, redisStore,
          memoryCache, memoryCacheExpiry, now, calls, lastCall, written,
          thisTaskRouting, responses>>

----------------------------------------------------------------------------
(* Bounds of the model *)

MaxCalls == 2       \* processQuery invocations per behaviour
MaxInFlight == 1    \* processQuery invocations in flight together
MaxTicks == 1       \* clock advances per behaviour
MaxCacheTicks == 2  \* clock advances per behaviour of the cache service alone
MaxOverlap == 2     \* _checkModelStatus invocations in flight together
MaxSweepKeys == 10  \* distinct keys written to the in-memory cache

CallIds  == 1..MaxCalls
CheckIds == {1}     \* pings time out after 3 s and the interval is 60 s: no overlap
OverlapIds == 1..MaxOverlap  \* a healthCheckInterval shorter than a check

----------------------------------------------------------------------------
(* aiConfig *)

taskRouting ==
  [ routeOptimization |-> "deepseek",
    complexAnalysis   |-> "deepseek",
    weatherAnalysis   |-> "deepseek",
    vesselTracking    |-> "phi3",
    basicQueries      |-> "phi3",
    portOperations    |-> "phi3",
    criticalSafety    |-> "both" ]

cacheEnabled == TRUE
cacheTTL == 3600

\* The task categories the controllers pass: the routed ones and 'etaPrediction'.
TaskTypes == DOMAIN taskRouting \cup {"etaPrediction"}

Queries  == {"q1"}
Contexts == { [info |-> "a", timestamp |-> 5] }

\* The clock advances by one cache lifetime, in ms.
TickStep == cacheTTL * 1000

----------------------------------------------------------------------------
(* Values *)

NullResult == "<null>"         \* JS null (a rejected fan-out call, .catch(e => null))
EmptyText  == ""               \* a 2xx response whose text field is empty or missing
Failure    == "<error>"        \* the HTTP call threw (timeout, refused, non-2xx)
NoReply    == "<none>"         \* no call made / not answered yet

DeepSeekTexts == {"deepseek text", EmptyText}
Phi3Texts     == {"phi3 text", EmptyText}

Truthy(s) == s /= EmptyText /\ s /= NullResult

Remove(m, k) == [x \in DOMAIN m \ {k} |-> m[x]]
Put(m, k, v) == [x \in DOMAIN m \cup {k} |-> IF x = k THEN v ELSE m[x]]
EmptyMap == [x \in {} |-> TRUE]

----------------------------------------------------------------------------
(* AIOrchestrator: pure helpers *)

\* _normalizeContext: a deep clone with a truthy timestamp / requestId removed.
\* timestamp is a number (falsy when 0), requestId a string (falsy when "").
_normalizeContext(context) ==
  LET dropTs  == IF "timestamp" \in DOMAIN context /\ context.timestamp /= 0
                 THEN {"timestamp"} ELSE {}
      dropRid == IF "requestId" \in DOMAIN context /\ context.requestId /= ""
                 THEN {"requestId"} ELSE {}
  IN  [f \in DOMAIN context \ (dropTs \cup dropRid) |-> context[f]]

\* _generateQueryId: md5 of JSON.stringify({query, context, taskType}); the hash
\* is taken as injective, so the digest is the hashed triple under a tag.
_generateQueryId(query, context, taskType) ==
  [md5 |-> <<query, _normalizeContext(context), taskType>>]

cacheKey(queryId) == <<"ai_query:", queryId>>

offlineResponses ==
  [ vesselTracking    |-> "Vessel tracking data is not available in offline mode. Please try again when online connectivity is restored.",
    weatherAnalysis   |-> "Weather analysis is not available in offline mode. Basic cached weather data may be available in your local system.",
    routeOptimization |-> "Route optimization requires online connectivity to process complex maritime data. Please try again when connection is restored.",
    basicQueries      |-> "I'm currently in offline mode with limited functionality. I can provide basic information, but real-time data and advanced analysis require online connectivity.",
    default           |-> "I'm currently operating in offline mode with limited capabilities. Please check your internet connection and try again later." ]

\* mutant of _getOfflineResponse: the category is ignored
_getOfflineResponse_alwaysDefault(query, taskType) ==
  offlineResponses["default"]

\* _getOfflineResponse: responses[taskType] || responses.default
_getOfflineResponse(query, taskType) ==
  IF taskType \in DOMAIN offlineResponses
  THEN offlineResponses[taskType]
  ELSE offlineResponses["default"]

\* mutant of preferredModel: an unrouted category defaults to the remote backend
preferredModel_defaultRemote(taskType) ==
  IF taskType \in DOMAIN thisTaskRouting THEN thisTaskRouting[taskType] ELSE "deepseek"

\* this.taskRouting[taskType] || 'phi3'
preferredModel(taskType) ==
  IF taskType \in DOMAIN thisTaskRouting THEN thisTaskRouting[taskType] ELSE "phi3"

\* mutant of _determineTargetModel: the preference is ignored, local comes first
_determineTargetModel_ignoresPreference(taskType) ==
  IF modelStatus.phi3Available THEN "phi3"
  ELSE IF modelStatus.deepseekAvailable THEN "deepseek"
  ELSE "offline"

\* mutant of _determineTargetModel: 'both' is kept while only one backend is up
_determineTargetModel_bothWhenAnyUp(taskType) ==
  LET preferred == preferredModel(taskType)
      ds == modelStatus.deepseekAvailable
      ph == modelStatus.phi3Available
  IN  IF ~ds /\ ~ph THEN "offline"
      ELSE IF preferred = "deepseek" /\ ds THEN "deepseek"
      ELSE IF preferred = "phi3" /\ ph THEN "phi3"
      ELSE IF preferred = "both" THEN "both"
      ELSE IF ph THEN "phi3"
      ELSE "deepseek"

\* mutant of _determineTargetModel: until the first health check has
\* published, the backends are taken to be available
_determineTargetModel_optimisticAtStart(taskType) ==
  LET preferred == preferredModel(taskType)
      unchecked == modelStatus.lastChecked = <<"null", 0>>
      ds == unchecked \/ modelStatus.deepseekAvailable
      ph == unchecked \/ modelStatus.phi3Available
  IN  IF ~ds /\ ~ph THEN "offline"
      ELSE IF preferred = "deepseek" /\ ds THEN "deepseek"
      ELSE IF preferred = "phi3" /\ ph THEN "phi3"
      ELSE IF preferred = "both" /\ ds /\ ~ph THEN "deepseek"
      ELSE IF preferred = "both" /\ ~ds /\ ph THEN "phi3"
      ELSE IF preferred = "both" /\ ds /\ ph THEN "both"
      ELSE IF ph THEN "phi3"
      ELSE IF ds THEN "deepseek"
      ELSE "offline"

\* _determineTargetModel, reading this.modelStatus
_determineTargetModel(taskType) ==
  LET preferred == preferredModel(taskType)
      ds == modelStatus.deepseekAvailable
      ph == modelStatus.phi3Available
  IN  IF ~ds /\ ~ph THEN "offline"
      ELSE IF preferred = "deepseek" /\ ds THEN "deepseek"
      ELSE IF preferred = "phi3" /\ ph THEN "phi3"
      ELSE IF preferred = "both" /\ ds /\ ~ph THEN "deepseek"
      ELSE IF preferred = "both" /\ ~ds /\ ph THEN "phi3"
      ELSE IF preferred = "both" /\ ds /\ ph THEN "both"
      ELSE IF ph THEN "phi3"
      ELSE IF ds THEN "deepseek"
      ELSE "offline"

\* _processBothModels, once both calls have settled (a rejection became null)
_processBothModels(deepseekResult, phi3Result) ==
  IF ~Truthy(deepseekResult)
  THEN [result |-> phi3Result, source |-> "phi3-fallback"]
  ELSE IF ~Truthy(phi3Result)
  THEN [result |-> deepseekResult, source |-> "deepseek-fallback"]
  ELSE [result |-> deepseekResult, source |-> "consensus-deepseek"]

\* new Date().toISOString()
toISOString(ms) == <<"ISO-8601", ms>>
NullDate == <<"null", 0>>

----------------------------------------------------------------------------
(* CacheService *)

stringify(data) == <<"json", data>>      \* JSON.stringify
parse(serialized) == serialized[2]       \* JSON.parse

\* what get/set leave in the caller's hands
NoData == [found |-> FALSE, result |-> NullResult]
Data(d) == [found |-> TRUE, result |-> d.result]

\* _cleanupMemoryCache over the given maps: the keys whose expiry is past
ExpiredKeys(expiry) == {k \in DOMAIN expiry : expiry[k] < now}

\* mutant of memoryGet: an entry is still served at the instant of its expiry
memoryGet_servesAtExpiry(key) ==
  IF key \in DOMAIN memoryCache
  THEN IF key \in DOMAIN memoryCacheExpiry /\ memoryCacheExpiry[key] >= now
       THEN [value |-> Data(parse(memoryCache[key])),
             cache |-> memoryCache, expiry |-> memoryCacheExpiry]
       ELSE [value |-> NoData,
             cache |-> Remove(memoryCache, key),
             expiry |-> Remove(memoryCacheExpiry, key)]
  ELSE [value |-> NoData, cache |-> memoryCache, expiry |-> memoryCacheExpiry]

\* mutant of memoryGet: an expired entry is reported absent but left in the maps
memoryGet_keepsExpired(key) ==
  IF key \in DOMAIN memoryCache
  THEN IF key \in DOMAIN memoryCacheExpiry /\ memoryCacheExpiry[key] > now
       THEN [value |-> Data(parse(memoryCache[key])),
             cache |-> memoryCache, expiry |-> memoryCacheExpiry]
       ELSE [value |-> NoData, cache |-> memoryCache, expiry |-> memoryCacheExpiry]
  ELSE [value |-> NoData, cache |-> memoryCache, expiry |-> memoryCacheExpiry]

\* get() on the in-memory maps: [value, memoryCache, memoryCacheExpiry]
memoryGet(key) ==
  IF key \in DOMAIN memoryCache
  THEN IF key \in DOMAIN memoryCacheExpiry /\ memoryCacheExpiry[key] > now
       THEN [value |-> Data(parse(memoryCache[key])),
             cache |-> memoryCache, expiry |-> memoryCacheExpiry]
       ELSE [value |-> NoData,
             cache |-> Remove(memoryCache, key),
             expiry |-> Remove(memoryCacheExpiry, key)]
  ELSE [value |-> NoData, cache |-> memoryCache, expiry |-> memoryCacheExpiry]

\* if (this.memoryCache.size % 10 === 0) this._cleanupMemoryCache()
SweepEvery == 10

\* mutant of memorySet: the sweep is never run
memorySet_neverSweeps(key, data, ttl) ==
  [cache  |-> Put(memoryCache, key, stringify(data)),
   expiry |-> Put(memoryCacheExpiry, key, now + ttl * 1000)]

\* mutant of memorySet: the sweep deletes from the value map only
memorySet_sweepsValuesOnly(key, data, ttl) ==
  LET cache1  == Put(memoryCache, key, stringify(data))
      expiry1 == Put(memoryCacheExpiry, key, now + ttl * 1000)
      sweep   == Cardinality(DOMAIN cache1) % SweepEvery = 0
      gone    == IF sweep THEN ExpiredKeys(expiry1) ELSE {}
  IN  [cache  |-> [k \in DOMAIN cache1 \ gone |-> cache1[k]],
       expiry |-> expiry1]

\* set() on the in-memory maps, with the sweep every tenth size
memorySet(key, data, ttl) ==
  LET cache1  == Put(memoryCache, key, stringify(data))
      expiry1 == Put(memoryCacheExpiry, key, now + ttl * 1000)
      sweep   == Cardinality(DOMAIN cache1) % SweepEvery = 0
      gone    == IF sweep THEN ExpiredKeys(expiry1) ELSE {}
  IN  [cache  |-> [k \in DOMAIN cache1 \ gone |-> cache1[k]],
       expiry |-> [k \in DOMAIN expiry1 \ gone |-> expiry1[k]]]

\* redis.get: a key past its expiry is gone
redisGet(key) ==
  IF key \in DOMAIN redisStore /\ redisStore[key].expireAt > now
  THEN Data(parse(redisStore[key].value))
  ELSE NoData

\* redis.setex
redisSetex(key, ttl, serialized) ==
  Put(redisStore, key, [value |-> serialized, expireAt |-> now + ttl * 1000])

\* redis.del and redis.flushall
redisDel(key) == Remove(redisStore, key)
redisFlushall == EmptyMap

\* The four methods, as functions of the state they run in: `connected` is
\* this.isConnected when the method is entered and `ok` tells whether the Redis
\* command succeeds (a rejected command lands in the method's catch). Each gives
\* the value returned (ret for set/del/clear, value for get) and the contents
\* the two stores are left with.
Outcome(ret, value, redis, cache, expiry) ==
  [ret |-> ret, value |-> value, redis |-> redis, cache |-> cache, expiry |-> expiry,
   threw |-> FALSE]      \* every method body is one try/catch that returns

\* set(key, data, ttl)                                           (lines 58-85)
set(key, data, ttl, connected, ok) ==
  IF connected
  THEN IF ok
       THEN Outcome(TRUE, NoData, redisSetex(key, ttl, stringify(data)),
                    memoryCache, memoryCacheExpiry)
       ELSE Outcome(FALSE, NoData, redisStore, memoryCache, memoryCacheExpiry)
  ELSE LET m == memorySet(key, data, ttl)
       IN  Outcome(TRUE, NoData, redisStore, m.cache, m.expiry)

\* get(key)                                                     (lines 92-125)
get(key, connected, ok) ==
  IF connected
  THEN Outcome(TRUE, IF ok THEN redisGet(key) ELSE NoData,
               redisStore, memoryCache, memoryCacheExpiry)
  ELSE LET g == memoryGet(key)
       IN  Outcome(TRUE, g.value, redisStore, g.cache, g.expiry)

\* del(key)                                                    (lines 132-146)
del(key, connected, ok) ==
  IF connected
  THEN IF ok
       THEN Outcome(TRUE, NoData, redisDel(key), memoryCache, memoryCacheExpiry)
       ELSE Outcome(FALSE, NoData, redisStore, memoryCache, memoryCacheExpiry)
  ELSE Outcome(TRUE, NoData, redisStore,
               Remove(memoryCache, key), Remove(memoryCacheExpiry, key))

\* clear()                                                     (lines 152-166)
clear(connected, ok) ==
  IF connected
  THEN IF ok
       THEN Outcome(TRUE, NoData, redisFlushall, memoryCache, memoryCacheExpiry)
       ELSE Outcome(FALSE, NoData, redisStore, memoryCache, memoryCacheExpiry)
  ELSE Outcome(TRUE, NoData, redisStore, EmptyMap, EmptyMap)

----------------------------------------------------------------------------
(* State after construction *)

\* no method of the cache service has been called directly
NoCall == [op |-> "none"]

\* the record of a set() that returned true: what was stored, for how
\* long, when, and which store ("memory" or "redis") took it
Written(data, ttl, via) == [data |-> data, ttl |-> ttl, at |-> now, via |-> via]

NoStatus == [deepseekAvailable |-> FALSE, phi3Available |-> FALSE]

IdleCall ==
  [ pc             |-> "idle",
    query          |-> "",
    context        |-> EmptyMap,
    taskType       |-> "",
    queryId        |-> [md5 |-> <<>>],
    startTime      |-> 0,
    cached         |-> NoData,          \* cachedResult
    targetModel    |-> "none",          \* targetModel of processQuery
    deepseekResult |-> NoReply,         \* the fan-out's two settled values
    phi3Result     |-> NoReply,
    result         |-> NullResult,
    source         |-> "none",
    processingTime |-> 0,
    timestamp      |-> 0,               \* the timestamp of the value handed to set
    ret            |-> EmptyMap,        \* the object returned, or the error thrown
    \* history of the invocation, read by the properties only
    statusAtDispatch |-> NoStatus,      \* the flags when processQuery resumed after the lookup
    issued         |-> <<>>,            \* the backend calls issued, in order
    primaryGot     |-> [deepseek |-> NoReply, phi3 |-> NoReply],
    handled        |-> FALSE,           \* _handleProcessingError ran
    currentModel   |-> "none",          \* currentModel of _handleProcessingError
    fallbackModel  |-> "none",          \* the backend the fallback called, if any
    fallbackGot    |-> NoReply ]

Init ==
  /\ modelStatus = [deepseekAvailable |-> FALSE, phi3Available |-> FALSE,
                    lastChecked |-> NullDate]
  /\ offlineMode = FALSE
  \* the constructor has called _checkModelStatus: the first ping is in flight
  /\ checks = [h \in OverlapIds |->
                 [pc |-> IF h \in CheckIds THEN "pingDeepSeek" ELSE "idle",
                  deepseekAvailable |-> FALSE]]
  /\ isConnected = FALSE
  /\ redisStore = EmptyMap
  /\ memoryCache = EmptyMap
  /\ memoryCacheExpiry = EmptyMap
  /\ now = 0
  /\ calls = [c \in CallIds |-> IdleCall]
  /\ lastCall = NoCall
  /\ written = EmptyMap
  /\ thisTaskRouting = taskRouting
  /\ responses = [route \in {"POST /query", "PUT /settings"} |-> <<>>]

----------------------------------------------------------------------------
(* Health Monitor: _checkModelStatus *)

\* what axios.get(`${endpoint}/health`, {timeout: 3000}) can come to
ProbeOutcomes == {"200", "503", "error", "timeout"}

\* _pingEndpoint (lines 92-101): true on status 200; another status is false,
\* and a rejected or timed-out request lands in the catch, which returns false
_pingEndpoint(outcome) == outcome = "200"

\* the probes of check h that are sent and not yet settled: the Phi-3 ping is
\* sent after the await of the DeepSeek ping (lines 48, 51)
ProbesInFlight(h) ==
  IF checks[h].pc = "pingDeepSeek" THEN {"deepseek"}
  ELSE IF checks[h].pc = "pingPhi3" THEN {"phi3"}
  ELSE {}

EnteringOffline == "All AI models unavailable - entering offline mode"
ExitingOffline == "AI models now available - exiting offline mode"
DeepSeekUnavailable == "DeepSeek AI service unavailable"
Phi3Unavailable == "Phi-3 AI service unavailable"

\* mutant of logged: 'entering offline mode' at every check that finds both down
logged_everyCheck(offline, deepseekAvailable, phi3Available) ==
  (IF ~deepseekAvailable /\ ~phi3Available THEN <<EnteringOffline>>
   ELSE IF offline THEN <<ExitingOffline>>
   ELSE <<>>)
  \o (IF ~deepseekAvailable THEN <<DeepSeekUnavailable>> ELSE <<>>)
  \o (IF ~phi3Available THEN <<Phi3Unavailable>> ELSE <<>>)

\* the logger calls of a check that completes while this.offlineMode is
\* `offline`, in order (lines 60-77)
logged(offline, deepseekAvailable, phi3Available) ==
  (IF ~deepseekAvailable /\ ~phi3Available
   THEN (IF ~offline THEN <<EnteringOffline>> ELSE <<>>)
   ELSE IF offline THEN <<ExitingOffline>>
   ELSE <<>>)
  \o (IF ~deepseekAvailable THEN <<DeepSeekUnavailable>> ELSE <<>>)
  \o (IF ~phi3Available THEN <<Phi3Unavailable>> ELSE <<>>)

\* mutant of pingDeepSeekDone: the DeepSeek flag is published as soon as its
\* probe settles
pingDeepSeekDone_publishesEarly(h, available) ==
  /\ checks[h].pc = "pingDeepSeek"
  /\ checks' = [checks EXCEPT ![h] = [pc |-> "pingPhi3", deepseekAvailable |-> available]]
  /\ modelStatus' = [modelStatus EXCEPT !.deepseekAvailable = available]
  /\ UNCHANGED <<offlineMode, cacheVars, now, webVars, calls, apiVars>>

\* setInterval fires: a new check starts and sends its first ping
timerTick(h) ==
  /\ checks[h].pc = "idle"
  /\ checks' = [checks EXCEPT ![h].pc = "pingDeepSeek"]
  /\ UNCHANGED <<modelStatus, offlineMode, cacheVars, now, webVars, calls, apiVars>>

\* mutant of pingDeepSeekDone: a probe that did not succeed throws out of
\* _checkModelStatus, which is left unfinished
pingDeepSeekDone_errorPropagates(h, available) ==
  /\ checks[h].pc = "pingDeepSeek"
  /\ checks' = [checks EXCEPT ![h] = [pc |-> IF available THEN "pingPhi3" ELSE "threw",
                                      deepseekAvailable |-> available]]
  /\ UNCHANGED <<modelStatus, offlineMode, cacheVars, now, webVars, calls, apiVars>>

\* the DeepSeek ping settles (_pingEndpoint never throws); the Phi-3 ping is sent
pingDeepSeekDone(h, available) ==
  /\ checks[h].pc = "pingDeepSeek"
  /\ checks' = [checks EXCEPT ![h] = [pc |-> "pingPhi3", deepseekAvailable |-> available]]
  /\ UNCHANGED <<modelStatus, offlineMode, cacheVars, now, webVars, calls, apiVars>>

\* the Phi-3 ping settles: the status is published and offlineMode updated
pingPhi3Done(h, available) ==
  /\ checks[h].pc = "pingPhi3"
  /\ LET deepseekAvailable == checks[h].deepseekAvailable
         phi3Available == available
     IN  /\ modelStatus' = [deepseekAvailable |-> deepseekAvailable,
                            phi3Available |-> phi3Available,
                            lastChecked |-> toISOString(now)]
         /\ offlineMode' = IF ~deepseekAvailable /\ ~phi3Available THEN TRUE
                           ELSE IF offlineMode THEN FALSE
                           ELSE offlineMode
  /\ checks' = [checks EXCEPT ![h] = [pc |-> "idle", deepseekAvailable |-> FALSE]]
  /\ UNCHANGED <<cacheVars, now, webVars, calls, apiVars>>

----------------------------------------------------------------------------
(* Environment: the Redis connection and the clock *)

\* redis.on('connect')
redisConnect ==
  /\ ~isConnected
  /\ isConnected' = TRUE
  /\ UNCHANGED <<healthVars, redisStore, memoryCache, memoryCacheExpiry, now, webVars, calls, apiVars>>

\* redis.on('error')
redisError ==
  /\ isConnected
  /\ isConnected' = FALSE
  /\ UNCHANGED <<healthVars, redisStore, memoryCache, memoryCacheExpiry, now, webVars, calls, apiVars>>

\* time passes; Redis drops the keys whose lifetime has run out
tick ==
  /\ now < MaxTicks * TickStep
  /\ now' = now + TickStep
  /\ redisStore' = [k \in {x \in DOMAIN redisStore : redisStore[x].expireAt > now'}
                      |-> redisStore[k]]
  /\ UNCHANGED <<healthVars, isConnected, memoryCache, memoryCacheExpiry, calls, apiVars,
                 webVars>>

----------------------------------------------------------------------------
(* Query Orchestrator: processQuery and _handleProcessingError *)

InFlight == {c \in CallIds : calls[c].pc \notin {"idle", "done", "threw"}}

TextsOf(backend) == IF backend = "deepseek" THEN DeepSeekTexts ELSE Phi3Texts

\* return { result, source, processingTime, queryId }       (lines 120-125, 166-171)
returned(call) ==
  [call EXCEPT !.pc = "done",
               !.ret = [result |-> call.result, source |-> call.source,
                        processingTime |-> call.processingTime,
                        queryId |-> call.queryId]]

\* return { result, source, processingTime, fallback: true }  (lines 213-218)
fallbackReturned(call) ==
  [call EXCEPT !.pc = "done",
               !.ret = [result |-> call.result, source |-> call.source,
                        processingTime |-> call.processingTime,
                        fallback |-> TRUE]]

\* throw new Error(`AI processing failed: ...`)               (line 180)
thrown(call) ==
  [call EXCEPT !.pc = "threw", !.ret = [error |-> "AI processing failed"]]

\* mutant of succeed: the result is returned without being handed to the cache
succeed_neverCaches(c, call, result, source) ==
  LET held == [call EXCEPT !.result = result, !.source = source,
                           !.processingTime = now - call.startTime,
                           !.timestamp = now]
  IN  /\ calls' = [calls EXCEPT ![c] = returned(held)]
      /\ UNCHANGED <<cacheVars, written>>

\* mutant of succeed: only what a backend returned is handed to the cache
succeed_cachesBackendResultsOnly(c, call, result, source) ==
  LET held == [call EXCEPT !.result = result, !.source = source,
                           !.processingTime = now - call.startTime,
                           !.timestamp = now]
      data == [result |-> result, timestamp |-> now]
      m    == memorySet(cacheKey(call.queryId), data, cacheTTL)
  IN  IF cacheEnabled /\ Truthy(result) /\ source /= "offline"
      THEN IF isConnected
           THEN /\ calls' = [calls EXCEPT ![c] = [held EXCEPT !.pc = "redisSet"]]
                /\ UNCHANGED <<cacheVars, written>>
           ELSE /\ memoryCache' = m.cache
                /\ memoryCacheExpiry' = m.expiry
                /\ calls' = [calls EXCEPT ![c] = returned(held)]
                /\ written' = Put(written, cacheKey(call.queryId),
                                   Written(data, cacheTTL, "memory"))
                /\ UNCHANGED <<isConnected, redisStore>>
      ELSE /\ calls' = [calls EXCEPT ![c] = returned(held)]
           /\ UNCHANGED <<cacheVars, written>>

\* lines 156-171: take the time, hand a truthy result to cacheService.set, return.
\* set() on the in-memory maps runs at once; on Redis the SETEX is awaited.
succeed(c, call, result, source) ==
  LET held == [call EXCEPT !.result = result, !.source = source,
                           !.processingTime = now - call.startTime,
                           !.timestamp = now]
      data == [result |-> result, timestamp |-> now]
      m    == memorySet(cacheKey(call.queryId), data, cacheTTL)
  IN  IF cacheEnabled /\ Truthy(result)
      THEN IF isConnected
           THEN /\ calls' = [calls EXCEPT ![c] = [held EXCEPT !.pc = "redisSet"]]
                /\ UNCHANGED <<cacheVars, written>>
           ELSE /\ memoryCache' = m.cache
                /\ memoryCacheExpiry' = m.expiry
                /\ calls' = [calls EXCEPT ![c] = returned(held)]
                /\ written' = Put(written, cacheKey(call.queryId),
                                   Written(data, cacheTTL, "memory"))
                /\ UNCHANGED <<isConnected, redisStore>>
      ELSE /\ calls' = [calls EXCEPT ![c] = returned(held)]
           /\ UNCHANGED <<cacheVars, written>>

\* mutant of _handleProcessingError: with no fallback backend available the
\* error is raised instead of the offline message returned
_handleProcessingError_throwsWhenNoFallback(c, call) ==
  LET currentModel  == _determineTargetModel(call.taskType)
      fallbackModel == IF currentModel = "deepseek" THEN "phi3" ELSE "deepseek"
      h == [call EXCEPT !.handled = TRUE, !.currentModel = currentModel]
  IN  IF fallbackModel = "deepseek" /\ modelStatus.deepseekAvailable
      THEN calls' = [calls EXCEPT ![c] =
                       [h EXCEPT !.pc = "awaitFallback", !.fallbackModel = "deepseek",
                                 !.issued = Append(@, "deepseek")]]
      ELSE IF fallbackModel = "phi3" /\ modelStatus.phi3Available
      THEN calls' = [calls EXCEPT ![c] =
                       [h EXCEPT !.pc = "awaitFallback", !.fallbackModel = "phi3",
                                 !.issued = Append(@, "phi3")]]
      ELSE calls' = [calls EXCEPT ![c] = thrown(h)]

\* mutant of _handleProcessingError: the fallback backend is called without
\* looking at its availability flag
_handleProcessingError_ignoresAvailability(c, call) ==
  LET currentModel  == _determineTargetModel(call.taskType)
      fallbackModel == IF currentModel = "deepseek" THEN "phi3" ELSE "deepseek"
      h == [call EXCEPT !.handled = TRUE, !.currentModel = currentModel]
  IN  calls' = [calls EXCEPT ![c] =
                  [h EXCEPT !.pc = "awaitFallback", !.fallbackModel = fallbackModel,
                            !.issued = Append(@, fallbackModel)]]

\* _handleProcessingError up to its await (lines 189-209)
_handleProcessingError(c, call) ==
  LET currentModel  == _determineTargetModel(call.taskType)
      fallbackModel == IF currentModel = "deepseek" THEN "phi3" ELSE "deepseek"
      h == [call EXCEPT !.handled = TRUE, !.currentModel = currentModel]
  IN  IF fallbackModel = "deepseek" /\ modelStatus.deepseekAvailable
      THEN calls' = [calls EXCEPT ![c] =
                       [h EXCEPT !.pc = "awaitFallback", !.fallbackModel = "deepseek",
                                 !.issued = Append(@, "deepseek")]]
      ELSE IF fallbackModel = "phi3" /\ modelStatus.phi3Available
      THEN calls' = [calls EXCEPT ![c] =
                       [h EXCEPT !.pc = "awaitFallback", !.fallbackModel = "phi3",
                                 !.issued = Append(@, "phi3")]]
      ELSE calls' = [calls EXCEPT ![c] =
                       fallbackReturned(
                         [h EXCEPT !.result = _getOfflineResponse(call.query, call.taskType),
                                   !.source = "offline-fallback",
                                   !.processingTime = now - call.startTime])]

\* a caller that awaits each processQuery before it makes the next one
Sequential == Cardinality(InFlight) < MaxInFlight

\* processQuery is called: the fingerprint is computed and cacheService.get called.
\* get() on the in-memory maps runs at once; on Redis the GET is awaited.
processQuery(c, query, context, taskType) ==
  /\ calls[c].pc = "idle"
  /\ LET queryId == _generateQueryId(query, context, taskType)
         call == [IdleCall EXCEPT !.query = query, !.context = context,
                                  !.taskType = taskType, !.queryId = queryId,
                                  !.startTime = now]
         g == memoryGet(cacheKey(queryId))
     IN  IF cacheEnabled /\ isConnected
         THEN /\ calls' = [calls EXCEPT ![c] = [call EXCEPT !.pc = "redisGet"]]
              /\ UNCHANGED <<memoryCache, memoryCacheExpiry>>
         ELSE /\ calls' = [calls EXCEPT ![c] =
                             [call EXCEPT !.pc = "gotCache",
                                          !.cached = IF cacheEnabled THEN g.value ELSE NoData]]
              /\ memoryCache' = IF cacheEnabled THEN g.cache ELSE memoryCache
              /\ memoryCacheExpiry' = IF cacheEnabled THEN g.expiry ELSE memoryCacheExpiry
  /\ UNCHANGED <<healthVars, isConnected, redisStore, now, webVars, apiVars>>

\* the Redis GET settles; a failure is caught inside get(), which then returns null
redisGetReply(c, ok) ==
  /\ calls[c].pc = "redisGet"
  /\ calls' = [calls EXCEPT ![c].pc = "gotCache",
                            ![c].cached = IF ok THEN redisGet(cacheKey(calls[c].queryId))
                                          ELSE NoData]
  /\ UNCHANGED <<healthVars, cacheVars, now, webVars, apiVars>>

\* mutant of dispatch: an invocation whose fingerprint is already awaiting a
\* backend joins that call and issues none of its own
dispatch_joinsInFlight(c) ==
  /\ calls[c].pc = "gotCache"
  /\ LET call == calls[c]
         targetModel == _determineTargetModel(call.taskType)
         seen == [call EXCEPT !.statusAtDispatch =
                                   [deepseekAvailable |-> modelStatus.deepseekAvailable,
                                    phi3Available |-> modelStatus.phi3Available]]
         routed == [seen EXCEPT !.targetModel = targetModel]
         joined == \E d \in CallIds \ {c} :
                     /\ calls[d].queryId = call.queryId
                     /\ calls[d].pc \in {"awaitPrimary", "awaitBoth"}
     IN  IF call.cached.found
         THEN /\ calls' = [calls EXCEPT ![c] =
                             returned([seen EXCEPT !.result = call.cached.result,
                                                   !.source = "cache",
                                                   !.processingTime = now - call.startTime])]
              /\ UNCHANGED <<cacheVars, written>>
         ELSE IF targetModel = "both"
         THEN /\ calls' = [calls EXCEPT ![c] =
                             [routed EXCEPT !.pc = "awaitBoth",
                                            !.issued = IF joined THEN <<>>
                                                       ELSE <<"deepseek", "phi3">>]]
              /\ UNCHANGED <<cacheVars, written>>
         ELSE IF targetModel \in {"deepseek", "phi3"}
         THEN /\ calls' = [calls EXCEPT ![c] =
                             [routed EXCEPT !.pc = "awaitPrimary",
                                            !.issued = IF joined THEN <<>>
                                                       ELSE <<targetModel>>]]
              /\ UNCHANGED <<cacheVars, written>>
         ELSE succeed(c, routed, _getOfflineResponse(call.query, call.taskType), "offline")
  /\ UNCHANGED <<healthVars, now, webVars, lastCall>>

\* mutant of dispatch: the 'offline' target is treated as a failed dispatch and
\* handed to the error handler
dispatch_offlineRaises(c) ==
  /\ calls[c].pc = "gotCache"
  /\ LET call == calls[c]
         targetModel == _determineTargetModel(call.taskType)
         seen == [call EXCEPT !.statusAtDispatch =
                                   [deepseekAvailable |-> modelStatus.deepseekAvailable,
                                    phi3Available |-> modelStatus.phi3Available]]
         routed == [seen EXCEPT !.targetModel = targetModel]
     IN  IF call.cached.found
         THEN /\ calls' = [calls EXCEPT ![c] =
                             returned([seen EXCEPT !.result = call.cached.result,
                                                   !.source = "cache",
                                                   !.processingTime = now - call.startTime])]
              /\ UNCHANGED <<cacheVars, written>>
         ELSE IF targetModel = "both"
         THEN /\ calls' = [calls EXCEPT ![c] =
                             [routed EXCEPT !.pc = "awaitBoth",
                                            !.issued = <<"deepseek", "phi3">>]]
              /\ UNCHANGED <<cacheVars, written>>
         ELSE IF targetModel \in {"deepseek", "phi3"}
         THEN /\ calls' = [calls EXCEPT ![c] =
                             [routed EXCEPT !.pc = "awaitPrimary",
                                            !.issued = <<targetModel>>]]
              /\ UNCHANGED <<cacheVars, written>>
         ELSE /\ _handleProcessingError(c, routed)
              /\ UNCHANGED <<cacheVars, written>>
  /\ UNCHANGED <<healthVars, now, webVars, lastCall>>

\* processQuery resumes after the cache lookup (lines 117-154): a hit is returned,
\* a miss is routed and dispatched
dispatch(c) ==
  /\ calls[c].pc = "gotCache"
  /\ LET call == calls[c]
         targetModel == _determineTargetModel(call.taskType)
         seen == [call EXCEPT !.statusAtDispatch =
                                   [deepseekAvailable |-> modelStatus.deepseekAvailable,
                                    phi3Available |-> modelStatus.phi3Available]]
         routed == [seen EXCEPT !.targetModel = targetModel]
     IN  IF call.cached.found
         THEN /\ calls' = [calls EXCEPT ![c] =
                             returned([seen EXCEPT !.result = call.cached.result,
                                                   !.source = "cache",
                                                   !.processingTime = now - call.startTime])]
              /\ UNCHANGED <<cacheVars, written>>
         ELSE IF targetModel = "both"
         THEN /\ calls' = [calls EXCEPT ![c] =
                             [routed EXCEPT !.pc = "awaitBoth",
                                            !.issued = <<"deepseek", "phi3">>]]
              /\ UNCHANGED <<cacheVars, written>>
         ELSE IF targetModel \in {"deepseek", "phi3"}
         THEN /\ calls' = [calls EXCEPT ![c] =
                             [routed EXCEPT !.pc = "awaitPrimary",
                                            !.issued = <<targetModel>>]]
              /\ UNCHANGED <<cacheVars, written>>
         ELSE succeed(c, routed, _getOfflineResponse(call.query, call.taskType), "offline")
  /\ UNCHANGED <<healthVars, now, webVars, lastCall>>

\* mutant of primaryFailure: the backend whose call failed is marked unavailable
primaryFailure_marksUnavailable(c) ==
  /\ calls[c].pc = "awaitPrimary"
  /\ modelStatus' = IF calls[c].targetModel = "deepseek"
                    THEN [modelStatus EXCEPT !.deepseekAvailable = FALSE]
                    ELSE [modelStatus EXCEPT !.phi3Available = FALSE]
  /\ _handleProcessingError(c, [calls[c] EXCEPT !.primaryGot[calls[c].targetModel] = Failure])
  /\ UNCHANGED <<offlineMode, checks, cacheVars, now, webVars, apiVars>>

\* the single backend call of the primary dispatch returns a text
primarySuccess(c, text) ==
  /\ calls[c].pc = "awaitPrimary"
  /\ text \in TextsOf(calls[c].targetModel)
  /\ succeed(c, [calls[c] EXCEPT !.primaryGot[calls[c].targetModel] = text],
             text, calls[c].targetModel)
  /\ UNCHANGED <<healthVars, now, webVars, lastCall>>

\* mutant of primaryFailure: a failed backend call parks the invocation until
\* the backend recovers
primaryFailure_waitsForRecovery(c) ==
  /\ calls[c].pc = "awaitPrimary"
  /\ calls' = [calls EXCEPT ![c].pc = "awaitRecovery",
                            ![c].primaryGot[calls[c].targetModel] = Failure]
  /\ UNCHANGED <<healthVars, cacheVars, now, webVars, apiVars>>

\* the single backend call of the primary dispatch throws: the catch of line 172
primaryFailure(c) ==
  /\ calls[c].pc = "awaitPrimary"
  /\ _handleProcessingError(c, [calls[c] EXCEPT !.primaryGot[calls[c].targetModel] = Failure])
  /\ UNCHANGED <<healthVars, cacheVars, now, webVars, apiVars>>

\* one call of the fan-out settles (a rejection becomes null); when both have
\* settled, _processBothModels decides and processQuery goes on
bothReply(c, backend, outcome) ==
  /\ calls[c].pc = "awaitBoth"
  /\ calls[c].primaryGot[backend] = NoReply
  /\ outcome \in TextsOf(backend) \cup {Failure}
  /\ LET value == IF outcome = Failure THEN NullResult ELSE outcome
         call == IF backend = "deepseek"
                 THEN [calls[c] EXCEPT !.primaryGot.deepseek = outcome, !.deepseekResult = value]
                 ELSE [calls[c] EXCEPT !.primaryGot.phi3 = outcome, !.phi3Result = value]
         r == _processBothModels(call.deepseekResult, call.phi3Result)
     IN  IF call.primaryGot.deepseek = NoReply \/ call.primaryGot.phi3 = NoReply
         THEN /\ calls' = [calls EXCEPT ![c] = call]
              /\ UNCHANGED <<cacheVars, written>>
         ELSE succeed(c, call, r.result, r.source)
  /\ UNCHANGED <<healthVars, now, webVars, lastCall>>

\* mutant of fallbackSuccess: the text the fallback got is handed to the cache
fallbackSuccess_caches(c, text) ==
  /\ calls[c].pc = "awaitFallback"
  /\ text \in TextsOf(calls[c].fallbackModel)
  /\ succeed(c, [calls[c] EXCEPT !.fallbackGot = text], text,
             IF calls[c].fallbackModel = "deepseek"
             THEN "deepseek-fallback" ELSE "phi3-fallback")
  /\ UNCHANGED <<healthVars, now, webVars, lastCall>>

\* the fallback's backend call returns a text (lines 199-218)
fallbackSuccess(c, text) ==
  /\ calls[c].pc = "awaitFallback"
  /\ text \in TextsOf(calls[c].fallbackModel)
  /\ calls' = [calls EXCEPT ![c] =
                 fallbackReturned(
                   [calls[c] EXCEPT !.fallbackGot = text,
                                    !.result = text,
                                    !.source = IF calls[c].fallbackModel = "deepseek"
                                               THEN "deepseek-fallback" ELSE "phi3-fallback",
                                    !.processingTime = now - calls[c].startTime])]
  /\ UNCHANGED <<healthVars, cacheVars, now, webVars, apiVars>>

\* mutant of fallbackFailure: a failed fallback call runs the fallback again
fallbackFailure_retries(c) ==
  /\ calls[c].pc = "awaitFallback"
  /\ _handleProcessingError(c, [calls[c] EXCEPT !.fallbackGot = Failure])
  /\ UNCHANGED <<healthVars, cacheVars, now, webVars, apiVars>>

\* the fallback's backend call throws: the catch of line 178 raises the error
fallbackFailure(c) ==
  /\ calls[c].pc = "awaitFallback"
  /\ calls' = [calls EXCEPT ![c] = thrown([calls[c] EXCEPT !.fallbackGot = Failure])]
  /\ UNCHANGED <<healthVars, cacheVars, now, webVars, apiVars>>

\* mutant of redisSetReply: a failed SETEX is not caught and fails the invocation
redisSetReply_failureThrows(c, ok) ==
  /\ calls[c].pc = "redisSet"
  /\ redisStore' = IF ok
                   THEN redisSetex(cacheKey(calls[c].queryId), cacheTTL,
                                   stringify([result |-> calls[c].result,
                                              timestamp |-> calls[c].timestamp]))
                   ELSE redisStore
  /\ written' = IF ok
                THEN Put(written, cacheKey(calls[c].queryId),
                         Written([result |-> calls[c].result,
                                  timestamp |-> calls[c].timestamp], cacheTTL, "redis"))
                ELSE written
  /\ calls' = [calls EXCEPT ![c] = IF ok THEN returned(calls[c]) ELSE thrown(calls[c])]
  /\ UNCHANGED <<healthVars, isConnected, memoryCache, memoryCacheExpiry, now, webVars, lastCall>>

\* the Redis SETEX settles; a failure is caught inside set(); processQuery returns
redisSetReply(c, ok) ==
  /\ calls[c].pc = "redisSet"
  /\ redisStore' = IF ok
                   THEN redisSetex(cacheKey(calls[c].queryId), cacheTTL,
                                   stringify([result |-> calls[c].result,
                                              timestamp |-> calls[c].timestamp]))
                   ELSE redisStore
  /\ written' = IF ok
                THEN Put(written, cacheKey(calls[c].queryId),
                         Written([result |-> calls[c].result,
                                  timestamp |-> calls[c].timestamp], cacheTTL, "redis"))
                ELSE written
  /\ calls' = [calls EXCEPT ![c] = returned(calls[c])]
  /\ UNCHANGED <<healthVars, isConnected, memoryCache, memoryCacheExpiry, now, webVars, lastCall>>

----------------------------------------------------------------------------
(* Direct callers of the cache service *)

\* The keys, values and lifetimes direct callers use. The keys are fingerprints,
\* as processQuery builds them.
CacheTaskTypes == {"basicQueries"}
CacheKeys ==
  {cacheKey(_generateQueryId(query, context, taskType)) :
     query \in Queries, context \in Contexts, taskType \in CacheTaskTypes}
CacheData == {[result |-> r, timestamp |-> 0] : r \in {"v1", "v2"}}
CacheTTLs == {cacheTTL, 2 * cacheTTL}
NoKey == cacheKey([md5 |-> <<>>])

\* what lastCall keeps of a call: the method, its key, what it returned, whether
\* the Redis command failed, the store that served it and the clock
Called(op, key, r, connected, ok) ==
  [op |-> op, key |-> key, ret |-> r.ret, value |-> r.value, threw |-> r.threw,
   failed |-> connected /\ ~ok,
   via |-> IF connected THEN "redis" ELSE "memory", at |-> now]

\* the method leaves the stores as its outcome says
Leaves(r) ==
  /\ redisStore' = r.redis
  /\ memoryCache' = r.cache
  /\ memoryCacheExpiry' = r.expiry

\* cacheService.set(key, data, ttl) called and settled
callSet(key, data, ttl, ok) ==
  /\ ok \/ isConnected
  /\ LET r == set(key, data, ttl, isConnected, ok)
     IN  /\ Leaves(r)
         /\ lastCall' = Called("set", key, r, isConnected, ok)
         /\ written' = IF r.ret
                       THEN Put(written, key,
                                Written(data, ttl, IF isConnected THEN "redis" ELSE "memory"))
                       ELSE Remove(written, key)
  /\ UNCHANGED <<healthVars, isConnected, now, webVars, calls>>

\* cacheService.get(key) called and settled
callGet(key, ok) ==
  /\ ok \/ isConnected
  /\ LET r == get(key, isConnected, ok)
     IN  /\ Leaves(r)
         /\ lastCall' = Called("get", key, r, isConnected, ok)
  /\ UNCHANGED <<healthVars, isConnected, now, webVars, calls, written>>

\* cacheService.del(key) called and settled
callDel(key, ok) ==
  /\ ok \/ isConnected
  /\ LET r == del(key, isConnected, ok)
     IN  /\ Leaves(r)
         /\ lastCall' = Called("del", key, r, isConnected, ok)
  /\ written' = Remove(written, key)
  /\ UNCHANGED <<healthVars, isConnected, now, webVars, calls>>

\* cacheService.clear() called and settled
callClear(ok) ==
  /\ ok \/ isConnected
  /\ LET r == clear(isConnected, ok)
     IN  /\ Leaves(r)
         /\ lastCall' = Called("clear", NoKey, r, isConnected, ok)
  /\ written' = EmptyMap
  /\ UNCHANGED <<healthVars, isConnected, now, webVars, calls>>

\* time passes for the cache; Redis drops the keys whose lifetime has run out
cacheTick ==
  /\ now < MaxCacheTicks * TickStep
  /\ now' = now + TickStep
  /\ redisStore' = [k \in {x \in DOMAIN redisStore : redisStore[x].expireAt > now'}
                      |-> redisStore[k]]
  /\ UNCHANGED <<healthVars, isConnected, memoryCache, memoryCacheExpiry, calls, apiVars,
                 webVars>>

----------------------------------------------------------------------------
(* Two cache services side by side *)

\* One service never connects and keeps everything in its in-memory maps, the
\* other is connected throughout and keeps everything in Redis, whose commands
\* succeed. Every call is made on both: memoryCache and memoryCacheExpiry are
\* the state of the first, redisStore of the second.
PairTaskTypes == {"basicQueries", "weatherAnalysis"}
PairKeys ==
  {cacheKey(_generateQueryId(query, context, taskType)) :
     query \in Queries, context \in Contexts, taskType \in PairTaskTypes}

Returned(r) == [ret |-> r.ret, value |-> r.value, threw |-> r.threw]

\* both services have run the method: m is the outcome on the in-memory one,
\* r on the Redis-backed one
Paired(op, key, m, r) ==
  /\ memoryCache' = m.cache
  /\ memoryCacheExpiry' = m.expiry
  /\ redisStore' = r.redis
  /\ lastCall' = [op |-> op, key |-> key, at |-> now,
                  memory |-> Returned(m), redis |-> Returned(r)]
  /\ UNCHANGED <<healthVars, isConnected, now, webVars, calls, written>>

pairSet(key, data, ttl) ==
  Paired("set", key, set(key, data, ttl, FALSE, TRUE), set(key, data, ttl, TRUE, TRUE))

pairGet(key) ==
  Paired("get", key, get(key, FALSE, TRUE), get(key, TRUE, TRUE))

pairDel(key) ==
  Paired("del", key, del(key, FALSE, TRUE), del(key, TRUE, TRUE))

pairClear ==
  Paired("clear", NoKey, clear(FALSE, TRUE), clear(TRUE, TRUE))

\* getStatus (lines 492-503), without the constant endpoints
getStatus ==
  [deepseek    |-> IF modelStatus.deepseekAvailable THEN "online" ELSE "offline",
   phi3        |-> IF modelStatus.phi3Available THEN "online" ELSE "offline",
   mode        |-> IF offlineMode THEN "offline" ELSE "online",
   lastChecked |-> modelStatus.lastChecked]

----------------------------------------------------------------------------
(* aiController: the handlers of POST /query and PUT /settings *)

PostQuery == "POST /query"
PutSettings == "PUT /settings"

\* req.user, set by the authentication in front of the private routes
Users == { [id |-> "u1", role |-> "admin"] }

\* req.body of POST /query: each of query, context and taskType present or not
QueryBodies ==
  LET withQuery == {EmptyMap} \cup {Put(EmptyMap, "query", q) : q \in Queries \cup {""}}
      withContext == withQuery \cup {Put(b, "context", ctx) : b \in withQuery, ctx \in Contexts}
  IN  withContext \cup {Put(b, "taskType", t) : b \in withContext, t \in TaskTypes \cup {""}}

\* another routing table, as an administrator might send it
OtherRouting == [t \in DOMAIN taskRouting |-> "phi3"]

\* req.body of PUT /settings: no settings, a string, or an object
SettingsBodies ==
  { EmptyMap,
    [settings |-> [typeof |-> "string"]],
    [settings |-> [typeof |-> "object", orchestration |-> [taskRouting |-> OtherRouting]]] }

Status(code, body) == [status |-> code, body |-> body]

\* the request's handler has not answered yet
Unanswered(route) == responses[route] = <<>>

\* POST /query arrives: without a query the handler answers 400; otherwise
\* it adds the user to the context and calls aiOrchestrator.processQuery,
\* which runs up to its first await                              (lines 16-41)
\* mutant of enhancedContext: the body's context is spread after the user
enhancedContext_bodyWins(body, user) ==
  LET context == IF "context" \in DOMAIN body THEN body.context ELSE EmptyMap
  IN  IF "user" \in DOMAIN context THEN context ELSE Put(context, "user", user)

\* enhancedContext (lines 28-34): the body's context, then user from req.user
enhancedContext(body, user) ==
  LET context == IF "context" \in DOMAIN body THEN body.context ELSE EmptyMap
  IN  Put(context, "user", [id |-> user.id, role |-> user.role])

postQuery(body, user) ==
  /\ Unanswered(PostQuery)
  /\ calls[1].pc = "idle"
  /\ IF "query" \notin DOMAIN body \/ body.query = ""
     THEN /\ responses' = [responses EXCEPT ![PostQuery] =
                             <<Status(400, [success |-> FALSE,
                                            message |-> "Query is required"])>>]
          /\ UNCHANGED <<healthVars, cacheVars, now, calls, apiVars, thisTaskRouting>>
     ELSE LET taskType == IF "taskType" \in DOMAIN body /\ body.taskType /= ""
                          THEN body.taskType ELSE "basicQueries"
          IN  processQuery(1, body.query, enhancedContext(body, user), taskType)

\* mutant of respond: an error raised by processQuery leaves the handler
respond_errorEscapes(route) ==
  /\ route = PostQuery
  /\ Unanswered(route)
  /\ calls[1].pc \in {"done", "threw"}
  /\ responses' = [responses EXCEPT ![route] =
       IF calls[1].pc = "done"
       THEN <<Status(200, [success |-> TRUE, data |-> calls[1].ret])>>
       ELSE <<Status(0, [unhandledRejection |-> calls[1].ret.error])>>]
  /\ UNCHANGED <<healthVars, cacheVars, now, calls, apiVars, thisTaskRouting>>

\* processQuery has settled: 200 with its result, or from the catch 500 with
\* the error's message                                           (lines 43-55)
respond(route) ==
  /\ route = PostQuery
  /\ Unanswered(route)
  /\ calls[1].pc \in {"done", "threw"}
  /\ responses' = [responses EXCEPT ![route] =
       IF calls[1].pc = "done"
       THEN <<Status(200, [success |-> TRUE, data |-> calls[1].ret])>>
       ELSE <<Status(500, [success |-> FALSE,
                           message |-> "Error processing AI query",
                           error |-> calls[1].ret.error])>>]
  /\ UNCHANGED <<healthVars, cacheVars, now, calls, apiVars, thisTaskRouting>>

\* mutant of updateSettings: the routing table of the settings is installed
updateSettings_appliesRouting(body) ==
  /\ IF "settings" \notin DOMAIN body \/ body.settings.typeof /= "object"
     THEN /\ responses' = [responses EXCEPT ![PutSettings] =
                             <<Status(400, [success |-> FALSE,
                                            message |-> "Valid settings object is required"])>>]
          /\ UNCHANGED thisTaskRouting
     ELSE /\ responses' = [responses EXCEPT ![PutSettings] =
                             <<Status(200, [success |-> TRUE,
                                            message |-> "Settings updated successfully"])>>]
          /\ thisTaskRouting' = body.settings.orchestration.taskRouting
  /\ UNCHANGED <<healthVars, cacheVars, now, calls, apiVars>>

\* PUT /settings: 400 without a settings object; otherwise the update is
\* logged and acknowledged, and no configuration is touched      (lines 335-364)
updateSettings(body) ==
  /\ responses' = [responses EXCEPT ![PutSettings] =
       IF "settings" \notin DOMAIN body \/ body.settings.typeof /= "object"
       THEN <<Status(400, [success |-> FALSE,
                           message |-> "Valid settings object is required"])>>
       ELSE <<Status(200, [success |-> TRUE,
                           message |-> "Settings updated successfully"])>>]
  /\ UNCHANGED <<healthVars, cacheVars, now, calls, apiVars, thisTaskRouting>>

----------------------------------------------------------------------------
(* Specifications *)

Backends == {"deepseek", "phi3"}
Outcomes == DeepSeekTexts \cup Phi3Texts \cup {Failure}

\* the health monitor and the Redis connection
EnvNext ==
  \/ \E h \in CheckIds : timerTick(h)
  \/ \E h \in CheckIds, outcome \in ProbeOutcomes :
       pingDeepSeekDone(h, _pingEndpoint(outcome))
  \/ \E h \in CheckIds, outcome \in ProbeOutcomes :
       pingPhi3Done(h, _pingEndpoint(outcome))
  \/ redisConnect
  \/ redisError

\* Health checks that overlap: the interval fires while a check is in flight
NextHealth ==
  \/ \E h \in OverlapIds : timerTick(h)
  \/ \E h \in OverlapIds, outcome \in ProbeOutcomes :
       pingDeepSeekDone(h, _pingEndpoint(outcome))
  \/ \E h \in OverlapIds, outcome \in ProbeOutcomes :
       pingPhi3Done(h, _pingEndpoint(outcome))
  \/ tick

SpecHealth == Init /\ [][NextHealth]_vars

\* the steps of invocation c after its start
CallNext(c) ==
  \/ \E ok \in BOOLEAN : redisGetReply(c, ok)
  \/ dispatch(c)
  \/ \E text \in DeepSeekTexts \cup Phi3Texts : primarySuccess(c, text)
  \/ primaryFailure(c)
  \/ \E backend \in Backends, outcome \in Outcomes : bothReply(c, backend, outcome)
  \/ \E text \in DeepSeekTexts \cup Phi3Texts : fallbackSuccess(c, text)
  \/ fallbackFailure(c)
  \/ \E ok \in BOOLEAN : redisSetReply(c, ok)

\* a later invocation repeats the request of the one before it (the volatile
\* context fields may differ): requests with other fingerprints use other cache
\* keys and share nothing with it
repeatQuery(c, context) ==
  /\ c > 1
  /\ calls[c - 1].pc /= "idle"
  /\ processQuery(c, calls[c - 1].query, context, calls[c - 1].taskType)

\* one invocation of processQuery, for every request, under every environment
Next ==
  \/ EnvNext
  \/ tick
  \/ Sequential /\ \E query \in Queries, context \in Contexts, taskType \in TaskTypes :
       processQuery(1, query, context, taskType)
  \/ CallNext(1)

Spec == Init /\ [][Next]_vars

\* every HTTP call of an invocation carries a timeout (requestTimeout, lines
\* 295 and 329) and every Redis command is answered or fails: the step an
\* invocation waits for comes
Fairness == \A c \in {1} : WF_vars(CallNext(c))

SpecLive == Init /\ [][Next]_vars /\ Fairness

\* an invocation followed by repeats of its request, all within one clock tick
NextRepeat ==
  \/ EnvNext
  \/ Sequential /\ \E query \in Queries, context \in Contexts, taskType \in TaskTypes :
       processQuery(1, query, context, taskType)
  \/ CallNext(1)
  \/ Sequential /\ \E c \in CallIds \ {1}, context \in Contexts : repeatQuery(c, context)
  \/ \E c \in CallIds \ {1} : CallNext(c)

SpecRepeat == Init /\ [][NextRepeat]_vars

\* the cache service on its own: direct calls of its methods, the Redis
\* connection coming and going, and the clock
NextCache ==
  \/ redisConnect
  \/ redisError
  \/ cacheTick
  \/ \E key \in CacheKeys, data \in CacheData, ttl \in CacheTTLs, ok \in BOOLEAN :
       callSet(key, data, ttl, ok)
  \/ \E key \in CacheKeys, ok \in BOOLEAN : callGet(key, ok)
  \/ \E key \in CacheKeys, ok \in BOOLEAN : callDel(key, ok)
  \/ \E ok \in BOOLEAN : callClear(ok)

SpecCache == Init /\ [][NextCache]_vars

\* the same calls and the same clock for the in-memory and the Redis-backed service
NextPair ==
  \/ cacheTick
  \/ \E key \in PairKeys, data \in CacheData, ttl \in CacheTTLs : pairSet(key, data, ttl)
  \/ \E key \in PairKeys : pairGet(key)
  \/ \E key \in PairKeys : pairDel(key)
  \/ pairClear

SpecPair == Init /\ [][NextPair]_vars

\* one invocation of processQuery next to a direct caller of the cache
\* service, with the Redis connection coming and going and its commands failing
BestEffortTaskTypes == {"criticalSafety"}
BestEffortKeys ==
  {cacheKey(_generateQueryId(query, context, taskType)) :
     query \in Queries, context \in Contexts, taskType \in BestEffortTaskTypes}
NextBestEffort ==
  \/ EnvNext
  \/ \E key \in BestEffortKeys, data \in CacheData, ok \in BOOLEAN :
       callSet(key, data, cacheTTL, ok)
  \/ \E key \in BestEffortKeys, ok \in BOOLEAN : callGet(key, ok)
  \/ \E key \in BestEffortKeys, ok \in BOOLEAN : callDel(key, ok)
  \/ \E ok \in BOOLEAN : callClear(ok)
  \/ Sequential /\ \E query \in Queries, context \in Contexts, taskType \in BestEffortTaskTypes :
       processQuery(1, query, context, taskType)
  \/ CallNext(1)

SpecBestEffort == Init /\ [][NextBestEffort]_vars

\* an invocation for a category that prefers the remote backend, followed by
\* repeats of its request, while the clock runs
RemoteTaskTypes == {t \in DOMAIN taskRouting : taskRouting[t] = "deepseek"}

\* the steps of invocation c after its start when its category prefers one
\* backend: the target is never 'both', so there is no fan-out to settle
SingleCallNext(c) ==
  \/ \E ok \in BOOLEAN : redisGetReply(c, ok)
  \/ dispatch(c)
  \/ \E text \in DeepSeekTexts \cup Phi3Texts : primarySuccess(c, text)
  \/ primaryFailure(c)
  \/ \E text \in DeepSeekTexts \cup Phi3Texts : fallbackSuccess(c, text)
  \/ fallbackFailure(c)
  \/ \E ok \in BOOLEAN : redisSetReply(c, ok)

NextTTL ==
  \/ EnvNext
  \/ tick
  \/ Sequential /\ \E query \in Queries, context \in Contexts, taskType \in RemoteTaskTypes :
       processQuery(1, query, context, taskType)
  \/ SingleCallNext(1)
  \/ Sequential /\ \E c \in CallIds \ {1}, context \in Contexts : repeatQuery(c, context)
  \/ \E c \in CallIds \ {1} : SingleCallNext(c)

SpecTTL == Init /\ [][NextTTL]_vars

\* the request contexts of the fingerprint check: one payload field, with and
\* without the volatile fields, each at a truthy and at a falsy value
VolatileContexts ==
  LET base == [info |-> "a"]
      withTs  == {base} \cup {Put(base, "timestamp", ts) : ts \in {0, 5}}
  IN  withTs \cup {Put(ctx, "requestId", rid) : ctx \in withTs, rid \in {"", "r1"}}

\* invocations of processQuery that differ in the volatile fields of their
\* context, run to completion while no backend has been found available
NextFingerprint ==
  \/ Sequential /\ \E c \in CallIds, query \in Queries, context \in VolatileContexts,
        taskType \in TaskTypes :
       processQuery(c, query, context, taskType)
  \/ \E c \in CallIds : dispatch(c)

SpecFingerprint == Init /\ [][NextFingerprint]_vars

\* two callers send the same request without waiting for one another: the
\* second invocation starts while the first may still be in flight
ConcurrentTaskTypes == {"basicQueries"}
NextConcurrent ==
  \/ EnvNext
  \/ \E query \in Queries, context \in Contexts, taskType \in ConcurrentTaskTypes :
       processQuery(1, query, context, taskType)
  \/ \E c \in CallIds \ {1}, context \in Contexts : repeatQuery(c, context)
  \/ \E c \in CallIds : SingleCallNext(c)

SpecConcurrent == Init /\ [][NextConcurrent]_vars

\* the controller in front of the orchestrator: one POST /query, served by
\* invocation 1, and PUT /settings requests
NextHttp ==
  \/ EnvNext
  \/ \E body \in QueryBodies, user \in Users : postQuery(body, user)
  \/ CallNext(1)
  \/ respond(PostQuery)
  \/ \E body \in SettingsBodies : updateSettings(body)

SpecHttp == Init /\ [][NextHttp]_vars

\* requests to POST /query from two authenticated users, one after another;
\* the body's context may carry a user field of its own, naming either user
UserPool == { [id |-> "u1", role |-> "admin"], [id |-> "u2", role |-> "admin"] }
UserBodies ==
  { [query |-> query, context |-> context] :
      query \in Queries,
      context \in Contexts \cup {Put(ctx, "user", u) : ctx \in Contexts, u \in UserPool} }

\* the c-th request reaches the handler with a query: lines 28-41; the
\* bodies carry no taskType, so the category is 'basicQueries' (line 40),
\* which is routed to one backend
request(c, body, user) ==
  /\ IF c = 1 THEN TRUE ELSE calls[c - 1].pc /= "idle"
  /\ processQuery(c, body.query, enhancedContext(body, user), "basicQueries")

NextUsers ==
  \/ EnvNext
  \/ Sequential /\ \E c \in CallIds, body \in UserBodies, user \in UserPool :
       request(c, body, user)
  \/ \E c \in CallIds : SingleCallNext(c)

SpecUsers == Init /\ [][NextUsers]_vars

\* processQuery settles (see Fairness) and the handler's continuation runs
SpecHttpLive ==
  Init /\ [][NextHttp]_vars /\ WF_vars(CallNext(1)) /\ WF_vars(respond(PostQuery))

\* the in-memory cache under many keys: Redis is never connected, requests
\* with new fingerprints keep arriving one after the other, and the first
\* key may also be read or deleted
SweepQueries == <<"q1", "q2", "q3", "q4", "q5", "q6", "q7", "q8", "q9", "q10", "q11", "q12">>
SweepKey(i) ==
  cacheKey(_generateQueryId(SweepQueries[i], CHOOSE context \in Contexts : TRUE,
                            "basicQueries"))
SweepData == {d \in CacheData : d.result = "v1"}

\* the keys come in the order of their requests, and only the first key is
\* written again while the map holds it
InOrder(i) ==
  IF i = 1 THEN TRUE
  ELSE SweepKey(i - 1) \in DOMAIN memoryCache /\ SweepKey(i) \notin DOMAIN memoryCache

NextSweep ==
  \/ cacheTick
  \/ \E i \in 1..MaxSweepKeys, data \in SweepData :
       InOrder(i) /\ callSet(SweepKey(i), data, cacheTTL, TRUE)
  \/ callGet(SweepKey(1), TRUE)
  \/ callDel(SweepKey(1), TRUE)
  \/ callClear(TRUE)

SpecSweep == Init /\ [][NextSweep]_vars

\* the cache service starts no timer of its own: of the steps above only the
\* passing of time is bound to happen
SpecSweepLive == Init /\ [][NextSweep]_vars /\ WF_vars(cacheTick)

----------------------------------------------------------------------------
(* Properties *)

Finished(c) == calls[c].pc \in {"done", "threw"}

\* the primary dispatch of c was a single backend call, and it threw
PrimaryThrew(c) ==
  /\ calls[c].targetModel \in Backends
  /\ calls[c].primaryGot[calls[c].targetModel] = Failure

\* text is something `backend` returned successfully to invocation c
ReturnedBy(c, backend, text) ==
  /\ text \in TextsOf(backend)
  /\ \/ calls[c].primaryGot[backend] = text
     \/ calls[c].fallbackModel = backend /\ calls[c].fallbackGot = text

\* C1: the source of every QueryResult names the path that produced its result:
\* 'cache' only for a result read from the cache with no backend called;
\* 'deepseek', 'consensus-deepseek', 'deepseek-fallback' only for a text the
\* remote backend returned during this call; 'phi3', 'phi3-fallback' only for a
\* text the local backend returned during this call; 'offline',
\* 'offline-fallback' only for the canned offline message.
C1_SourceNamesPath ==
  \A c \in CallIds :
    calls[c].pc = "done" =>
      LET r == calls[c].ret
      IN  /\ r.source \in {"cache", "deepseek", "consensus-deepseek", "deepseek-fallback",
                            "phi3", "phi3-fallback", "offline", "offline-fallback"}
          /\ r.source = "cache" =>
               calls[c].cached.found /\ r.result = calls[c].cached.result
                 /\ calls[c].issued = <<>>
          /\ r.source \in {"deepseek", "consensus-deepseek", "deepseek-fallback"} =>
               ReturnedBy(c, "deepseek", r.result)
          /\ r.source \in {"phi3", "phi3-fallback"} =>
               ReturnedBy(c, "phi3", r.result)
          /\ r.source \in {"offline", "offline-fallback"} =>
               r.result = _getOfflineResponse(calls[c].query, calls[c].taskType)

\* C2: when the target is 'both' and both backend calls error, processQuery
\* goes through _handleProcessingError and returns (or raises) its outcome.
C2_BothFailEscalates ==
  \A c \in CallIds :
    ( /\ Finished(c)
      /\ calls[c].targetModel = "both"
      /\ calls[c].primaryGot.deepseek = Failure
      /\ calls[c].primaryGot.phi3 = Failure )
    => /\ calls[c].handled
       /\ calls[c].pc = "done" => "fallback" \in DOMAIN calls[c].ret

\* C3: processQuery raises an error only when the primary dispatch threw and
\* the fallback's backend call threw too; every other finished invocation
\* returned a QueryResult.
C3_ErrorOnlyOnDoubleFailure ==
  \A c \in CallIds :
    /\ calls[c].pc = "threw" =>
         PrimaryThrew(c) /\ calls[c].handled
           /\ calls[c].fallbackModel \in Backends /\ calls[c].fallbackGot = Failure
    /\ (Finished(c) /\ ~(PrimaryThrew(c) /\ calls[c].fallbackGot = Failure)) =>
         calls[c].pc = "done" /\ {"result", "source"} \subseteq DOMAIN calls[c].ret

\* C3 witness: an invocation raised the error after a double failure
C3_Witness ==
  \E c \in CallIds :
    calls[c].pc = "threw" /\ PrimaryThrew(c) /\ calls[c].fallbackGot = Failure

\* C4: the backend the fallback calls is never the backend whose failed call
\* triggered it.
C4_FallbackNeverRetriesPrimary ==
  \A c \in CallIds :
    (calls[c].handled /\ calls[c].fallbackModel \in Backends) =>
      calls[c].fallbackModel /= calls[c].targetModel

\* C5: after the primary dispatch throws the fallback issues at most one
\* backend call, so an invocation issues at most two backend calls: one per
\* backend for target 'both', or one primary plus at most one fallback.
C5_AtMostTwoBackendCalls ==
  \A c \in CallIds :
    /\ Len(calls[c].issued) <= 2
    /\ calls[c].targetModel = "both" =>
         calls[c].issued = <<"deepseek", "phi3">> /\ ~calls[c].handled
    /\ calls[c].handled =>
         /\ PrimaryThrew(c)
         /\ Len(calls[c].issued) <= 2
         /\ calls[c].issued[1] = calls[c].targetModel
         /\ Len(calls[c].issued) = 2 => calls[c].issued[2] = calls[c].fallbackModel

\* C5 witness: a primary call threw, the fallback called a backend, and the
\* invocation has finished
C5_Witness ==
  \E c \in CallIds :
    Finished(c) /\ calls[c].handled /\ Len(calls[c].issued) = 2

\* C6: every QueryResult carries the fingerprint of its request, and one
\* returned through the fallback also carries result, source, processingTime
\* and fallback = true.
C6_ResultCarriesFingerprint ==
  \A c \in CallIds :
    calls[c].pc = "done" =>
      /\ {"result", "source", "processingTime", "queryId"} \subseteq DOMAIN calls[c].ret
      /\ calls[c].ret.queryId = _generateQueryId(calls[c].query, calls[c].context,
                                                 calls[c].taskType)
      /\ calls[c].handled =>
           "fallback" \in DOMAIN calls[c].ret /\ calls[c].ret.fallback = TRUE

\* the invocation c has resolved its target (its cache lookup missed)
Routed(c) == calls[c].targetModel /= "none"

\* the routing correctness table; "unlisted" where the table has no row
RoutingTable(remoteUp, localUp, pref) ==
  CASE remoteUp /\ localUp /\ pref = "deepseek"  -> "deepseek"
    [] remoteUp /\ localUp /\ pref = "phi3"      -> "phi3"
    [] remoteUp /\ localUp /\ pref = "both"      -> "both"
    [] remoteUp /\ ~localUp /\ pref = "deepseek" -> "deepseek"
    [] remoteUp /\ ~localUp /\ pref = "phi3"     -> "deepseek"
    [] ~remoteUp /\ localUp /\ pref = "deepseek" -> "phi3"
    [] ~remoteUp /\ ~localUp                     -> "offline"
    [] OTHER                                     -> "unlisted"

\* C7: the target processQuery resolves matches the routing correctness table
\* for the availability flags read and the preference of the task category.
C7_RoutingTable ==
  \A c \in CallIds :
    Routed(c) =>
      LET expected == RoutingTable(calls[c].statusAtDispatch.deepseekAvailable,
                                   calls[c].statusAtDispatch.phi3Available,
                                   preferredModel(calls[c].taskType))
      IN  expected /= "unlisted" => calls[c].targetModel = expected

\* C7 witness: a category that prefers local was routed to remote, the only
\* backend marked available
C7_Witness ==
  \E c \in CallIds :
    /\ Routed(c)
    /\ calls[c].taskType = "vesselTracking"
    /\ calls[c].statusAtDispatch = [deepseekAvailable |-> TRUE, phi3Available |-> FALSE]
    /\ calls[c].targetModel = "deepseek"

\* C8: for criticalSafety (preference 'both') the target is 'both' only when
\* both backends are marked available, the single available backend when
\* exactly one is, and 'offline' when neither is.
C8_BothPreference ==
  \A c \in CallIds :
    (Routed(c) /\ calls[c].taskType = "criticalSafety") =>
      LET ds == calls[c].statusAtDispatch.deepseekAvailable
          ph == calls[c].statusAtDispatch.phi3Available
      IN  /\ (ds /\ ph)   => calls[c].targetModel = "both"
          /\ (ds /\ ~ph)  => calls[c].targetModel = "deepseek"
          /\ (~ds /\ ph)  => calls[c].targetModel = "phi3"
          /\ (~ds /\ ~ph) => calls[c].targetModel = "offline"

\* C8 witness: criticalSafety was routed to the local backend alone while the
\* remote one was marked unavailable
C8_Witness ==
  \E c \in CallIds :
    /\ Routed(c)
    /\ calls[c].taskType = "criticalSafety"
    /\ calls[c].statusAtDispatch = [deepseekAvailable |-> FALSE, phi3Available |-> TRUE]
    /\ calls[c].targetModel = "phi3"

\* C9: a category with no routing entry ('etaPrediction') resolves to local
\* when local is marked available, else to remote when remote is, else offline.
C9_UnroutedCategoryIsLocal ==
  \A c \in CallIds :
    (Routed(c) /\ calls[c].taskType \notin DOMAIN taskRouting) =>
      calls[c].targetModel =
        IF calls[c].statusAtDispatch.phi3Available THEN "phi3"
        ELSE IF calls[c].statusAtDispatch.deepseekAvailable THEN "deepseek"
        ELSE "offline"

\* C9 witness: 'etaPrediction' was routed to the local backend with both
\* backends marked available
C9_Witness ==
  \E c \in CallIds :
    /\ Routed(c)
    /\ calls[c].taskType = "etaPrediction"
    /\ calls[c].statusAtDispatch = [deepseekAvailable |-> TRUE, phi3Available |-> TRUE]
    /\ calls[c].targetModel = "phi3"

\* the canned offline message of a category, as the offline table lists them
CannedMessage(taskType) ==
  CASE taskType = "vesselTracking"    -> offlineResponses.vesselTracking
    [] taskType = "weatherAnalysis"   -> offlineResponses.weatherAnalysis
    [] taskType = "routeOptimization" -> offlineResponses.routeOptimization
    [] taskType = "basicQueries"      -> offlineResponses.basicQueries
    [] OTHER                          -> offlineResponses.default

BothDownAtDispatch(c) ==
  calls[c].statusAtDispatch = [deepseekAvailable |-> FALSE, phi3Available |-> FALSE]

\* C10 as stated: with both backends marked unavailable, processQuery returns
\* the canned offline message of the category, whatever calls came before.
C10_OfflineAlwaysCanned ==
  \A c \in CallIds :
    (calls[c].pc = "done" /\ BothDownAtDispatch(c)) =>
      calls[c].ret.result = CannedMessage(calls[c].taskType)

\* C10 amended: with both backends marked unavailable, processQuery returns
\* the canned offline message of the category with source 'offline', unless
\* its cache lookup hit, and then it returns the cached result with source
\* 'cache'.
C10_OfflineCannedUnlessCached ==
  \A c \in CallIds :
    (calls[c].pc = "done" /\ BothDownAtDispatch(c)) =>
      IF calls[c].cached.found
      THEN calls[c].ret.source = "cache" /\ calls[c].ret.result = calls[c].cached.result
      ELSE calls[c].ret.source = "offline"
             /\ calls[c].ret.result = CannedMessage(calls[c].taskType)

\* C10 witness: after an earlier invocation that called a backend, a repeat
\* of the request with both backends marked unavailable got the canned message
C10_Witness ==
  \E c \in CallIds \ {1} :
    /\ calls[c].pc = "done" /\ BothDownAtDispatch(c)
    /\ calls[c - 1].issued /= <<>>
    /\ calls[c].taskType = "weatherAnalysis"
    /\ calls[c].ret.source = "offline"
    /\ calls[c].ret.result = offlineResponses.weatherAnalysis

\* C11: an invocation whose target resolves to 'offline' calls no backend and
\* never enters the error handler: it goes on to hand the canned message to the
\* cache and returns with source 'offline', raising nothing.
C11_OfflineTargetCallsNoBackend ==
  \A c \in CallIds :
    calls[c].targetModel = "offline" =>
      /\ calls[c].issued = <<>>
      /\ ~calls[c].handled
      /\ calls[c].pc \in {"redisSet", "done"}
      /\ calls[c].source = "offline"
      /\ calls[c].result = CannedMessage(calls[c].taskType)
      /\ calls[c].pc = "done" =>
           /\ calls[c].ret.source = "offline"
           /\ calls[c].ret.result = CannedMessage(calls[c].taskType)
           /\ "error" \notin DOMAIN calls[c].ret

\* an invocation routed to 'offline' has returned
C11_Witness ==
  \E c \in CallIds :
    /\ calls[c].targetModel = "offline"
    /\ calls[c].pc = "done"
    /\ calls[c].ret.source = "offline"

\* C17: in every state from construction on, the offline-mode flag is true
\* exactly when both availability flags are false, and getStatus reports mode
\* 'offline' exactly when it reports both backends 'offline'.
C17_OfflineModeIffBothDown ==
  /\ offlineMode <=> (~modelStatus.deepseekAvailable /\ ~modelStatus.phi3Available)
  /\ getStatus.mode = "offline" <=>
       (getStatus.deepseek = "offline" /\ getStatus.phi3 = "offline")

\* the two backend calls of a fan-out both returned a text
BothSucceeded(c) ==
  /\ calls[c].targetModel = "both"
  /\ calls[c].primaryGot.deepseek \in DeepSeekTexts
  /\ calls[c].primaryGot.phi3 \in Phi3Texts

\* C18: for target 'both' with both backend calls succeeding, the invocation
\* returns the remote text with source 'consensus-deepseek' whichever call
\* completed first, and nothing is decided while a call is outstanding.
C18_ConsensusPrecedence ==
  \A c \in CallIds :
    /\ (calls[c].targetModel = "both" /\ NoReply \in
          {calls[c].primaryGot.deepseek, calls[c].primaryGot.phi3}) =>
         calls[c].pc = "awaitBoth"
    /\ (BothSucceeded(c) /\ Finished(c)) =>
         /\ calls[c].pc = "done"
         /\ calls[c].ret.result = calls[c].primaryGot.deepseek
         /\ calls[c].ret.source = "consensus-deepseek"

\* C19: for target 'both' with exactly one backend call failing, the
\* invocation returns the other backend's text with that backend's '-fallback'
\* source, raises nothing and never enters _handleProcessingError.
C19_OneFailureReturnsTheOther ==
  \A c \in CallIds :
    (calls[c].targetModel = "both" /\ Finished(c)) =>
      /\ (calls[c].primaryGot.deepseek = Failure /\ calls[c].primaryGot.phi3 \in Phi3Texts) =>
           /\ calls[c].pc = "done" /\ ~calls[c].handled
           /\ calls[c].ret.result = calls[c].primaryGot.phi3
           /\ calls[c].ret.source = "phi3-fallback"
      /\ (calls[c].primaryGot.phi3 = Failure /\ calls[c].primaryGot.deepseek \in DeepSeekTexts) =>
           /\ calls[c].pc = "done" /\ ~calls[c].handled
           /\ calls[c].ret.result = calls[c].primaryGot.deepseek
           /\ calls[c].ret.source = "deepseek-fallback"

\* the backend the Fallback Chain turns to when the target resolves to t
Opposite(t) == IF t = "deepseek" THEN "phi3" ELSE "deepseek"

MarkedAvailable(backend) ==
  IF backend = "deepseek" THEN modelStatus.deepseekAvailable
  ELSE modelStatus.phi3Available

\* C20: when _handleProcessingError runs it resolves the target of the task
\* category against the availability flags of that moment and takes the
\* opposite backend; if that backend is marked available it issues exactly one
\* call to it, and when the call returns the invocation returns its text with
\* source '<backend>-fallback'; otherwise it issues no call and returns the
\* canned message of the category with source 'offline-fallback'.
C20_FallbackChain ==
  [][\A c \in CallIds :
       /\ (~calls[c].handled /\ calls'[c].handled) =>
            LET t   == _determineTargetModel(calls[c].taskType)
                opp == Opposite(t)
            IN  /\ calls'[c].currentModel = t
                /\ IF MarkedAvailable(opp)
                   THEN /\ calls'[c].pc = "awaitFallback"
                        /\ calls'[c].fallbackModel = opp
                        /\ calls'[c].issued = Append(calls[c].issued, opp)
                   ELSE /\ calls'[c].pc = "done"
                        /\ calls'[c].issued = calls[c].issued
                        /\ calls'[c].ret.result = CannedMessage(calls[c].taskType)
                        /\ calls'[c].ret.source = "offline-fallback"
       /\ (calls[c].pc = "awaitFallback" /\ calls'[c].pc /= "awaitFallback") =>
            /\ calls'[c].issued = calls[c].issued
            /\ calls'[c].fallbackModel = calls[c].fallbackModel
            /\ IF calls'[c].fallbackGot = Failure
               THEN calls'[c].pc = "threw"
               ELSE /\ calls'[c].pc = "done"
                    /\ calls'[c].fallbackGot \in TextsOf(calls[c].fallbackModel)
                    /\ calls'[c].ret.result = calls'[c].fallbackGot
                    /\ calls'[c].ret.source =
                         (IF calls[c].fallbackModel = "deepseek"
                          THEN "deepseek-fallback" ELSE "phi3-fallback")
    ]_vars

\* the fallback called its backend once and returned that backend's text
C20_Witness ==
  \E c \in CallIds :
    /\ calls[c].handled
    /\ calls[c].pc = "done"
    /\ calls[c].fallbackGot \in TextsOf(calls[c].fallbackModel)
    /\ Len(calls[c].issued) = 2
    /\ calls[c].ret.source \in {"deepseek-fallback", "phi3-fallback"}

\* the context without its top-level timestamp and requestId fields
WithoutVolatile(context) ==
  [f \in DOMAIN context \ {"timestamp", "requestId"} |-> context[f]]

\* C14: two invocations with the same query and task category whose contexts
\* differ only in the presence or the value of a top-level timestamp or
\* requestId compute the same fingerprint.
C14_FingerprintStable ==
  \A c1, c2 \in CallIds :
    ( /\ calls[c1].pc /= "idle" /\ calls[c2].pc /= "idle"
      /\ calls[c1].query = calls[c2].query
      /\ calls[c1].taskType = calls[c2].taskType
      /\ WithoutVolatile(calls[c1].context) = WithoutVolatile(calls[c2].context) )
    => calls[c1].queryId = calls[c2].queryId

\* C13: after set(k, v, T) returned true, with no set, del or clear of k since,
\* a get(k) made before T seconds have passed returns v and a get(k) made
\* once T seconds have passed returns null, whichever store serves each call
\* (a get whose Redis command failed aside: it returns null by design).
C13_CacheRoundTrip ==
  (lastCall.op = "get" /\ ~lastCall.failed /\ lastCall.key \in DOMAIN written) =>
    LET w == written[lastCall.key]
    IN  IF lastCall.at < w.at + w.ttl * 1000
        THEN lastCall.value = Data(w.data)
        ELSE lastCall.value = NoData

\* C16: given the same sequence of set, get, del and clear calls and the same
\* clock, the service on its in-memory maps and the service on Redis return
\* the same value from every call: same hits and misses, same success flags.
C16_StoresAgree ==
  lastCall.op /= "none" => lastCall.memory = lastCall.redis

\* a get after the clock advanced that both services answered with the stored value
C16_Witness ==
  /\ lastCall.op = "get"
  /\ lastCall.at > 0
  /\ lastCall.memory.value.found
  /\ lastCall.redis.value.found

\* C15: no method of the cache service throws; a call whose Redis command fails
\* returns null from get and false from set, del and clear; an invocation of
\* processQuery whose lookup fails goes on exactly as after a miss, and one
\* whose write fails returns the result and source it had computed, as it
\* does when nothing is written.
C15_CachingIsBestEffort ==
  [][/\ lastCall'.op /= "none" =>
          /\ ~lastCall'.threw
          /\ lastCall'.failed =>
               IF lastCall'.op = "get" THEN lastCall'.value = NoData
               ELSE lastCall'.ret = FALSE
     /\ \A c \in CallIds :
          /\ redisGetReply(c, FALSE) =>
               /\ calls'[c] = [calls[c] EXCEPT !.pc = "gotCache", !.cached = NoData]
               /\ UNCHANGED cacheVars
          /\ redisSetReply(c, FALSE) =>
               /\ calls'[c].pc = "done"
               /\ calls'[c].ret = [result |-> calls[c].result, source |-> calls[c].source,
                                   processingTime |-> calls[c].processingTime,
                                   queryId |-> calls[c].queryId]
               /\ UNCHANGED cacheVars
    ]_vars

\* an invocation returned a result it had to hand to the cache, no direct
\* caller has touched the cache, and neither store holds the entry: its write failed
C15_Witness ==
  \E c \in CallIds :
    /\ calls[c].pc = "done"
    /\ calls[c].ret.source \notin {"cache"}
    /\ Truthy(calls[c].ret.result)
    /\ "fallback" \notin DOMAIN calls[c].ret
    /\ lastCall.op = "none"
    /\ cacheKey(calls[c].queryId) \notin DOMAIN redisStore
    /\ cacheKey(calls[c].queryId) \notin DOMAIN memoryCache

\* the invocation found nothing in the cache and was routed with both backends
\* marked available and a category that prefers the remote backend, and its
\* call of the remote backend returned a text
RemoteFirst(c) ==
  /\ calls[c].pc = "done"
  /\ ~calls[c].cached.found
  /\ calls[c].statusAtDispatch = [deepseekAvailable |-> TRUE, phi3Available |-> TRUE]
  /\ preferredModel(calls[c].taskType) = "deepseek"
  /\ calls[c].primaryGot.deepseek \in DeepSeekTexts

\* the entry an invocation hands to the cache
Entry(call) == [result |-> call.result, timestamp |-> call.timestamp]

\* C12 as stated: such a first invocation makes one remote call and no local
\* one, returns source 'deepseek' and leaves its result in the cache, and a
\* repeat that runs within the TTL window returns the same result with source
\* 'cache' without a backend call.
C12_RepeatHitsCache ==
  \A c \in CallIds \ {1} :
    RemoteFirst(c - 1) =>
      /\ calls[c - 1].issued = <<"deepseek">>
      /\ calls[c - 1].ret.source = "deepseek"
      /\ ( /\ calls[c].pc = "done"
           /\ calls[c].queryId = calls[c - 1].queryId
           /\ calls[c].startTime + calls[c].processingTime
                < calls[c - 1].timestamp + cacheTTL * 1000 )
         => /\ calls[c].ret.source = "cache"
            /\ calls[c].ret.result = calls[c - 1].ret.result
            /\ calls[c].issued = <<>>

\* the latest successful write under key is held by `store` and has not expired
Holds(store, key) ==
  /\ key \in DOMAIN written
  /\ written[key].via = store
  /\ now < written[key].at + written[key].ttl * 1000

\* C12, amended: the first invocation makes one remote call and no local one
\* and returns the text with source 'deepseek'; a non-empty text is handed to
\* the store active at that moment under the fingerprint with the configured
\* lifetime, and a write that succeeds leaves it there; a lookup served without
\* failure by the store that holds the latest successful write of its
\* fingerprint, before that write expires, finds that entry; and an invocation
\* whose lookup found an entry returns it with source 'cache' and calls no backend.
C12_RepeatHitsCacheWhenStored ==
  [][\A c \in CallIds :
       LET key == cacheKey(calls'[c].queryId)
       IN  /\ RemoteFirst(c)' =>
                /\ calls'[c].issued = <<"deepseek">>
                /\ calls'[c].ret.source = "deepseek"
                /\ calls'[c].ret.result = calls'[c].primaryGot.deepseek
                /\ calls'[c].ret.queryId =
                     _generateQueryId(calls'[c].query, calls'[c].context, calls'[c].taskType)
           /\ (calls[c].pc = "awaitPrimary" /\ RemoteFirst(c)' /\ Truthy(calls'[c].ret.result)) =>
                /\ ~isConnected
                /\ key \in DOMAIN memoryCache' /\ key \in DOMAIN written'
                /\ memoryCache'[key] = stringify(Entry(calls'[c]))
                /\ memoryCacheExpiry'[key] = now + cacheTTL * 1000
                /\ written'[key] = Written(Entry(calls'[c]), cacheTTL, "memory")
           /\ (calls[c].pc = "awaitPrimary" /\ calls'[c].pc = "redisSet") =>
                isConnected /\ Truthy(calls'[c].result)
           /\ (redisSetReply(c, TRUE) /\ RemoteFirst(c)') =>
                /\ key \in DOMAIN redisStore' /\ key \in DOMAIN written'
                /\ redisStore'[key] = [value |-> stringify(Entry(calls'[c])),
                                       expireAt |-> now + cacheTTL * 1000]
                /\ written'[key] = Written(Entry(calls'[c]), cacheTTL, "redis")
           /\ (calls[c].pc = "idle" /\ calls'[c].pc = "gotCache" /\ Holds("memory", key)) =>
                calls'[c].cached = Data(written[key].data)
           /\ (redisGetReply(c, TRUE) /\ Holds("redis", key)) =>
                calls'[c].cached = Data(written[key].data)
           /\ (calls'[c].pc = "done" /\ calls'[c].cached.found) =>
                /\ calls'[c].ret.source = "cache"
                /\ calls'[c].ret.result = calls'[c].cached.result
                /\ calls'[c].issued = <<>>
    ]_vars

\* a repeat returned from the cache, without a backend call, what the first
\* invocation had got from the remote backend
C12_Witness ==
  \E c \in CallIds \ {1} :
    /\ RemoteFirst(c - 1)
    /\ calls[c].pc = "done"
    /\ calls[c].queryId = calls[c - 1].queryId
    /\ calls[c].ret.source = "cache"
    /\ calls[c].ret.result = calls[c - 1].ret.result
    /\ calls[c].issued = <<>>
    /\ calls[c - 1].issued = <<"deepseek">>

\* health check h completes in this step
Completes(h) == checks[h].pc = "pingPhi3" /\ checks'[h].pc /= "pingPhi3"

\* C21: _pingEndpoint gives false for every outcome but a 200 and never
\* throws; a health check is never left in an error, it completes by
\* publishing two boolean flags with the time of the check, and no step of a
\* health check touches a processQuery invocation.
C21_ProbingNeverFails ==
  [][/\ \A outcome \in ProbeOutcomes :
          /\ _pingEndpoint(outcome) \in BOOLEAN
          /\ outcome /= "200" => ~_pingEndpoint(outcome)
     /\ \A h \in DOMAIN checks :
          /\ checks'[h].pc \in {"idle", "pingDeepSeek", "pingPhi3"}
          /\ Completes(h) =>
               /\ checks'[h].pc = "idle"
               /\ modelStatus'.deepseekAvailable \in BOOLEAN
               /\ modelStatus'.phi3Available \in BOOLEAN
               /\ modelStatus'.lastChecked = toISOString(now)
     /\ checks' /= checks => calls' = calls
    ]_vars

\* a check whose remote probe failed has completed, with an invocation in flight
C21_Witness ==
  /\ \A h \in CheckIds : checks[h].pc = "idle"
  /\ modelStatus.lastChecked /= NullDate
  /\ ~modelStatus.deepseekAvailable
  /\ \E c \in CallIds : calls[c].pc \in {"awaitPrimary", "awaitBoth", "awaitFallback"}

\* C22: modelStatus and offlineMode change only in the step that completes a
\* health check; no step of processQuery or of the Fallback Chain changes
\* them, a failed call to a backend marked available included.
C22_OnlyHealthCheckChangesStatus ==
  [][(modelStatus' /= modelStatus \/ offlineMode' /= offlineMode) =>
       /\ \E h \in DOMAIN checks : Completes(h)
       /\ calls' = calls
    ]_vars

\* the call to a backend marked available failed, and the backend is still
\* marked available
C22_Witness ==
  \E c \in CallIds :
    /\ calls[c].targetModel = "phi3"
    /\ calls[c].primaryGot.phi3 = Failure
    /\ calls[c].statusAtDispatch.phi3Available
    /\ modelStatus.phi3Available
    /\ modelStatus.lastChecked /= NullDate

\* the messages logged by the check that completes in this step
LoggedNow ==
  logged(offlineMode, modelStatus'.deepseekAvailable, modelStatus'.phi3Available)

Occurrences(msgs, m) == Cardinality({i \in DOMAIN msgs : msgs[i] = m})

\* C27: a completing check logs 'entering offline mode' (once) exactly when
\* it takes offlineMode from false to true, and 'exiting offline mode' (once)
\* exactly when it takes it from true to false; a check that leaves the flag
\* as it was logs neither.
C27_OfflineEdgesLogged ==
  [][\A h \in DOMAIN checks : Completes(h) =>
       /\ Occurrences(LoggedNow, EnteringOffline) =
            (IF ~offlineMode /\ offlineMode' THEN 1 ELSE 0)
       /\ Occurrences(LoggedNow, ExitingOffline) =
            (IF offlineMode /\ ~offlineMode' THEN 1 ELSE 0)
    ]_vars

\* a completed check found both backends down: offline mode has been entered
C27_Witness ==
  /\ offlineMode
  /\ modelStatus.lastChecked /= NullDate
  /\ ~modelStatus.deepseekAvailable /\ ~modelStatus.phi3Available
  /\ \A h \in CheckIds : checks[h].pc = "idle"

\* C28: a check that completes after an earlier one logs a backend as
\* unavailable only if that backend's flag goes from available to
\* unavailable in that step.
C28_UnavailableLoggedOnChange ==
  [][\A h \in DOMAIN checks :
       (Completes(h) /\ modelStatus.lastChecked /= NullDate) =>
         /\ Occurrences(LoggedNow, DeepSeekUnavailable) > 0 =>
              modelStatus.deepseekAvailable /\ ~modelStatus'.deepseekAvailable
         /\ Occurrences(LoggedNow, Phi3Unavailable) > 0 =>
              modelStatus.phi3Available /\ ~modelStatus'.phi3Available
    ]_vars

\* C29: while a check's probe of the remote backend is in flight, its probe
\* of the local backend is in flight too.
C29_ProbesConcurrent ==
  \A h \in DOMAIN checks :
    "deepseek" \in ProbesInFlight(h) => "phi3" \in ProbesInFlight(h)

\* C30: every step that changes modelStatus is the completion of one health
\* check and installs that check's snapshot whole, whatever another check
\* published meanwhile: the DeepSeek flag that check probed, the Phi-3 flag
\* it probed, the time of the step, and offlineMode brought in line with the
\* two flags; so after overlapping checks the state is the snapshot of the
\* one that completed last.
C30_AtomicSnapshot ==
  [][/\ modelStatus' /= modelStatus => \E h \in DOMAIN checks : Completes(h)
     /\ \A h \in DOMAIN checks : Completes(h) =>
          /\ \E outcome \in ProbeOutcomes :
               modelStatus' = [deepseekAvailable |-> checks[h].deepseekAvailable,
                               phi3Available |-> _pingEndpoint(outcome),
                               lastChecked |-> toISOString(now)]
          /\ offlineMode' = (~modelStatus'.deepseekAvailable /\ ~modelStatus'.phi3Available)
          /\ \A g \in DOMAIN checks \ {h} : checks'[g] = checks[g]
    ]_vars

\* two checks overlap with different results for the remote probe, after an
\* earlier check has published
C30_Witness ==
  /\ modelStatus.lastChecked /= NullDate
  /\ \E h, g \in OverlapIds :
       /\ h /= g
       /\ checks[h].pc = "pingPhi3" /\ checks[g].pc = "pingPhi3"
       /\ checks[h].deepseekAvailable /\ ~checks[g].deepseekAvailable

\* how far an invocation has come
Rank(call) ==
  CASE call.pc = "idle" -> 0
    [] call.pc = "redisGet" -> 1
    [] call.pc = "gotCache" -> 2
    [] call.pc \in {"awaitPrimary", "awaitBoth"} -> 3
    [] call.pc = "awaitFallback" -> 4
    [] call.pc = "redisSet" -> 5
    [] call.pc \in {"done", "threw"} -> 6
    [] OTHER -> 7

\* the calls of the fan-out that have settled
Settled(call) ==
  Cardinality({r \in {"deepseekResult", "phi3Result"} : call[r] /= NoReply})

\* C24: every step of an invocation takes it further (in the fan-out, one
\* more of the two calls has settled), so no step is repeated, and an
\* invocation that has started ends, returning (done) or raising the
\* aggregated error (threw), given that the replies it awaits come.
C24_EventuallyCompletes ==
  /\ [][\A c \in CallIds : calls'[c] /= calls[c] =>
          /\ Rank(calls'[c]) <= 6
          /\ \/ Rank(calls'[c]) > Rank(calls[c])
             \/ /\ calls[c].pc = "awaitBoth" /\ calls'[c].pc = "awaitBoth"
                /\ Settled(calls'[c]) > Settled(calls[c])
       ]_vars
  /\ \A c \in CallIds : (calls[c].pc /= "idle") ~> Finished(c)

\* an invocation has ended on its longest path: primary call failed, fallback
\* call failed, aggregated error raised
C24_Witness ==
  \E c \in CallIds :
    /\ calls[c].pc = "threw"
    /\ PrimaryThrew(c)
    /\ calls[c].fallbackGot = Failure

\* another invocation with the fingerprint of c is awaiting its backend call
TwinInFlight(c) ==
  \E d \in CallIds \ {c} :
    /\ calls[d].queryId = calls[c].queryId
    /\ calls[d].pc = "awaitPrimary"

\* C23: an invocation whose lookup missed and whose target is a backend
\* issues its own call to that backend also while another invocation with the
\* same fingerprint is awaiting its backend call; and every invocation that
\* returns from the primary path returns result, source, processingTime and
\* its fingerprint.
C23_NoDeduplication ==
  /\ [][\A c \in CallIds :
          (/\ calls[c].pc = "gotCache" /\ calls'[c] /= calls[c]
           /\ ~calls[c].cached.found
           /\ _determineTargetModel(calls[c].taskType) \in Backends
           /\ TwinInFlight(c)) =>
            /\ calls'[c].pc = "awaitPrimary"
            /\ calls'[c].issued = <<_determineTargetModel(calls[c].taskType)>>
       ]_vars
  /\ [](\A c \in CallIds : (calls[c].pc = "done" /\ ~calls[c].handled) =>
          /\ DOMAIN calls[c].ret = {"result", "source", "processingTime", "queryId"}
          /\ calls[c].ret.queryId = calls[c].queryId)

\* the second of two identical requests started while the first was in
\* flight; both missed the cache and both called the backend; the second has
\* returned while the first still awaits its call
C23_Witness ==
  /\ calls[1].queryId = calls[2].queryId
  /\ ~calls[1].cached.found /\ ~calls[2].cached.found
  /\ calls[1].issued = <<"phi3">> /\ calls[2].issued = <<"phi3">>
  /\ calls[1].pc = "awaitPrimary"
  /\ calls[2].pc = "done" /\ calls[2].ret.source = "phi3"

\* the body of a POST /query has no usable query
QueryMissing(body) == "query" \notin DOMAIN body \/ body.query = ""

\* C25: the handler of POST /query sends at most one response, and
\* eventually one once the orchestrator has been invoked. A request without
\* a query is answered 400 in the step it arrives, and processQuery is not
\* invoked; a request with a query invokes processQuery with taskType or
\* 'basicQueries' and is answered 200 {success: true, data} with what
\* processQuery returned, or 500 {success: false, message, error} with the
\* message of what it raised.
C25_HandlerAnswersOnce ==
  /\ [](LET sent == responses[PostQuery]
        IN  /\ Len(sent) <= 1
            /\ sent /= <<>> =>
                 CASE sent[1].status = 400 ->
                        /\ calls[1].pc = "idle"
                        /\ sent[1].body = [success |-> FALSE, message |-> "Query is required"]
                   [] sent[1].status = 200 ->
                        /\ calls[1].pc = "done"
                        /\ sent[1].body = [success |-> TRUE, data |-> calls[1].ret]
                   [] sent[1].status = 500 ->
                        /\ calls[1].pc = "threw"
                        /\ sent[1].body = [success |-> FALSE,
                                           message |-> "Error processing AI query",
                                           error |-> calls[1].ret.error]
                   [] OTHER -> FALSE)
  /\ [][\A body \in QueryBodies, user \in Users : postQuery(body, user) =>
          IF QueryMissing(body)
          THEN /\ calls' = calls
               /\ Len(responses'[PostQuery]) = 1
               /\ responses'[PostQuery][1].status = 400
          ELSE /\ responses' = responses
               /\ calls'[1].pc \notin {"idle", "done", "threw"}
               /\ calls'[1].query = body.query
               /\ calls'[1].context.user = user
               /\ calls'[1].taskType \in TaskTypes
               /\ ("taskType" \notin DOMAIN body \/ body.taskType = "")
                    => calls'[1].taskType = "basicQueries"
       ]_vars
  /\ (calls[1].pc /= "idle") ~> ~Unanswered(PostQuery)

\* processQuery raised the aggregated error and the handler answered 500
C25_Witness ==
  /\ calls[1].pc = "threw"
  /\ ~Unanswered(PostQuery)
  /\ responses[PostQuery][1].status = 500

\* C26: the routing table used by _determineTargetModel is the configured
\* one in every state and no step changes it, an acknowledged PUT /settings
\* that carries another table included.
C26_RoutingTableFixed ==
  /\ [](thisTaskRouting = taskRouting)
  /\ [][/\ thisTaskRouting' = thisTaskRouting
        /\ \A body \in SettingsBodies : updateSettings(body) =>
             /\ calls' = calls
             /\ Len(responses'[PutSettings]) = 1
             /\ responses'[PutSettings][1].status \in {200, 400}
       ]_vars

\* a PUT /settings carrying another table was acknowledged, and an
\* invocation for a category the configured table sends to the remote
\* backend has called the remote backend
C26_Witness ==
  /\ ~Unanswered(PutSettings)
  /\ responses[PutSettings][1].status = 200
  /\ calls[1].taskType \in DOMAIN taskRouting
  /\ taskRouting[calls[1].taskType] = "deepseek"
  /\ OtherRouting[calls[1].taskType] = "phi3"
  /\ calls[1].statusAtDispatch.phi3Available
  /\ calls[1].issued = <<"deepseek">>

\* no health check has published yet
BeforeFirstCheck == modelStatus.lastChecked = NullDate

\* C31: until the first health check publishes, that check (started by the
\* constructor) is in flight and both flags are false;
\* an invocation that resumes from a cache miss in that window resolves to
\* 'offline', issues no backend call and returns the canned response.
C31_OfflineUntilFirstCheck ==
  /\ [](BeforeFirstCheck =>
          /\ ~modelStatus.deepseekAvailable /\ ~modelStatus.phi3Available
          /\ \E h \in CheckIds : checks[h].pc /= "idle")
  /\ [][\A c \in CallIds :
          (/\ BeforeFirstCheck
           /\ calls[c].pc = "gotCache" /\ calls'[c] /= calls[c]
           /\ ~calls[c].cached.found) =>
            /\ calls'[c].targetModel = "offline"
            /\ calls'[c].issued = <<>>
            /\ calls'[c].pc \in {"done", "redisSet"}
            /\ calls'[c].source = "offline"
            /\ calls'[c].result = _getOfflineResponse(calls[c].query, calls[c].taskType)
       ]_vars

\* an invocation for a category routed to the remote backend has returned the
\* canned response before the first check published
C31_Witness ==
  /\ BeforeFirstCheck
  /\ \E c \in CallIds :
       /\ calls[c].pc = "done"
       /\ calls[c].taskType \in DOMAIN taskRouting
       /\ taskRouting[calls[c].taskType] = "deepseek"
       /\ calls[c].ret.source = "offline"
       /\ calls[c].issued = <<>>

\* C32: a get served by the in-memory maps for a key they hold returns
\* absent and removes the key from both maps when the key's expiry time has
\* been reached, and returns the stored value and leaves both maps as they
\* were when the expiry is still ahead.
C32_ExpiredReadEvicts ==
  [][\A key \in DOMAIN memoryCache :
       (callGet(key, TRUE) /\ ~isConnected /\ key \in DOMAIN memoryCacheExpiry) =>
         IF memoryCacheExpiry[key] <= now
         THEN /\ lastCall'.value = NoData
              /\ key \notin DOMAIN memoryCache'
              /\ key \notin DOMAIN memoryCacheExpiry'
         ELSE /\ lastCall'.value = Data(parse(memoryCache[key]))
              /\ lastCall'.value.found
              /\ memoryCache' = memoryCache
              /\ memoryCacheExpiry' = memoryCacheExpiry
    ]_vars

\* a get found the entry written to the in-memory map expired, at the very
\* instant of its expiry, and evicted it
C32_Witness ==
  /\ lastCall.op = "get" /\ lastCall.via = "memory"
  /\ lastCall.value = NoData
  /\ lastCall.key \in DOMAIN written
  /\ written[lastCall.key].via = "memory"
  /\ lastCall.at = written[lastCall.key].at + written[lastCall.key].ttl * 1000
  /\ lastCall.key \notin DOMAIN memoryCache

\* the map holds key i, and the key's expiry time is in the past
Stale(i) ==
  /\ SweepKey(i) \in DOMAIN memoryCache
  /\ SweepKey(i) \in DOMAIN memoryCacheExpiry
  /\ memoryCacheExpiry[SweepKey(i)] < now

\* C33: an entry of the in-memory map that has expired and whose key is not
\* read again is eventually removed from the map.
C33_ExpiredEventuallySwept ==
  \A i \in 2..MaxSweepKeys : Stale(i) ~> (SweepKey(i) \notin DOMAIN memoryCache)

\* the size the value map has once set has stored its key
SizeAfterSet(key) == Cardinality(DOMAIN memoryCache \cup {key})

\* C33, amended: an in-memory set that leaves the map at a size that is a
\* multiple of ten removes every entry whose expiry time is in the past; any
\* other set removes nothing, so until such a set comes an expired entry that
\* is not read stays in the map.
C33_SweptAtEveryTenth ==
  [][\A i \in 1..MaxSweepKeys, data \in SweepData :
       callSet(SweepKey(i), data, cacheTTL, TRUE) =>
         IF SizeAfterSet(SweepKey(i)) % SweepEvery = 0
         THEN \A k \in DOMAIN memoryCacheExpiry' : ~(memoryCacheExpiry'[k] < now)
         ELSE DOMAIN memoryCache \subseteq DOMAIN memoryCache'
    ]_vars

\* an entry that expired is still in the map after a later set that did not
\* bring the map to a multiple of ten
C33_Witness ==
  /\ \E i \in 2..MaxSweepKeys : Stale(i)
  /\ lastCall.op = "set" /\ lastCall.at = now
  /\ Cardinality(DOMAIN memoryCache) % SweepEvery /= 0

\* C39: the value map and the expiry map hold the same keys in every state;
\* a set puts its key into both, and the keys another step takes out of the
\* value map it takes out of the expiry map; the keys a set takes out (the
\* sweep) all have an expiry time in the past.
C39_MapsHoldSameKeys ==
  /\ [](DOMAIN memoryCache = DOMAIN memoryCacheExpiry)
  /\ [][/\ DOMAIN memoryCache \ DOMAIN memoryCache' =
              DOMAIN memoryCacheExpiry \ DOMAIN memoryCacheExpiry'
        /\ \A i \in 1..MaxSweepKeys, data \in SweepData :
             callSet(SweepKey(i), data, cacheTTL, TRUE) =>
               /\ SweepKey(i) \in DOMAIN memoryCache'
               /\ SweepKey(i) \in DOMAIN memoryCacheExpiry'
               /\ \A k \in DOMAIN memoryCache \ DOMAIN memoryCache' :
                    memoryCacheExpiry[k] < now
       ]_vars

\* the set of the tenth key has swept expired entries out of both maps
C39_Witness ==
  /\ lastCall.op = "set" /\ lastCall.key = SweepKey(SweepEvery)
  /\ SweepKey(SweepEvery) \in DOMAIN memoryCache
  /\ SweepKey(2) \notin DOMAIN memoryCache
  /\ SweepKey(2) \notin DOMAIN memoryCacheExpiry

\* the backend calls invocation c issues in this step
IssuedNow(c) ==
  {calls'[c].issued[i] : i \in (DOMAIN calls'[c].issued) \ (DOMAIN calls[c].issued)}

\* C34: every backend call an invocation issues, in the primary dispatch or
\* in the Fallback Chain, goes to a backend whose flag in modelStatus is true
\* in the step that issues it; the fan-out to both is issued only with both
\* flags true.
C34_OnlyAvailableBackendsCalled ==
  [][\A c \in CallIds :
       /\ \A backend \in IssuedNow(c) : MarkedAvailable(backend)
       /\ calls'[c].pc = "awaitBoth" /\ calls[c].pc /= "awaitBoth" =>
            /\ IssuedNow(c) = Backends
            /\ modelStatus.deepseekAvailable /\ modelStatus.phi3Available
       /\ calls'[c].issued /= calls[c].issued => IssuedNow(c) /= {}
    ]_vars

\* the primary call to the local backend failed and the Fallback Chain has
\* called the remote backend, which is marked available
C34_Witness ==
  \E c \in CallIds :
    /\ calls[c].pc = "awaitFallback"
    /\ calls[c].issued = <<"phi3", "deepseek">>
    /\ calls[c].primaryGot.phi3 = Failure

\* the invocation missed the cache, resolved to 'offline' and returned the
\* canned message on the primary path
OfflineFirst(c) ==
  /\ calls[c].pc = "done"
  /\ ~calls[c].cached.found
  /\ calls[c].targetModel = "offline"
  /\ calls[c].ret.source = "offline"

NoEmptyEntries ==
  /\ \A key \in DOMAIN memoryCache : Truthy(parse(memoryCache[key]).result)
  /\ \A key \in DOMAIN redisStore : Truthy(parse(redisStore[key].value).result)

\* C36: no step an invocation takes in the Fallback Chain, from the failure
\* that enters _handleProcessingError to its return, changes either store;
\* an identical invocation that follows one returned by the Fallback Chain,
\* with no write of the fingerprint in force at its lookup, misses the cache;
\* and neither store ever holds an entry with a null or empty result.
C36_FallbackLeavesCacheAlone ==
  /\ []NoEmptyEntries
  /\ [][\A c \in CallIds :
          LET key == cacheKey(calls'[c].queryId)
          IN  /\ (calls'[c].handled /\ calls'[c] /= calls[c]) =>
                   /\ redisStore' = redisStore
                   /\ memoryCache' = memoryCache
                   /\ memoryCacheExpiry' = memoryCacheExpiry
                   /\ written' = written
                   /\ calls'[c].pc \in {"awaitFallback", "done", "threw"}
              /\ (/\ c > 1
                  /\ calls[c].pc \in {"idle", "redisGet"} /\ calls'[c].pc = "gotCache"
                  /\ calls[IF c > 1 THEN c - 1 ELSE c].pc = "done"
                  /\ calls[IF c > 1 THEN c - 1 ELSE c].handled
                  /\ calls[IF c > 1 THEN c - 1 ELSE c].queryId = calls'[c].queryId
                  /\ key \notin DOMAIN written) =>
                   ~calls'[c].cached.found
       ]_vars

\* an invocation returned a text through the Fallback Chain, and the
\* identical invocation after it missed the cache and was routed again
C36_Witness ==
  \E c \in CallIds \ {1} :
    /\ calls[c - 1].pc = "done" /\ calls[c - 1].handled
    /\ calls[c - 1].ret.source = "phi3-fallback"
    /\ Truthy(calls[c - 1].ret.result)
    /\ calls[c].queryId = calls[c - 1].queryId
    /\ ~calls[c].cached.found
    /\ calls[c].targetModel /= "none"

\* the call that settles in this step is a get of a key whose last call
\* before it was op, and that call returned true
GetFollows(op) ==
  /\ lastCall.op = op
  /\ lastCall.ret = TRUE
  /\ lastCall' /= lastCall
  /\ lastCall'.op = "get"
  /\ op = "clear" \/ lastCall'.key = lastCall.key

\* C37: whatever connect and error events and clock ticks fall between the
\* two calls, a get(k) that follows a del(k) or a clear() that returned true
\* returns null, and a get(k) that follows a set(k, v, T) that returned true
\* returns null or v, and v only before T seconds have passed.
C37_GetNeverStale ==
  [][ /\ (GetFollows("del") \/ GetFollows("clear")) => lastCall'.value = NoData
      /\ GetFollows("set") =>
           LET w == written[lastCall.key]
           IN  \/ lastCall'.value = NoData
               \/ /\ lastCall'.value = Data(w.data)
                  /\ lastCall'.at < w.at + w.ttl * 1000
    ]_vars

\* the user a fingerprint was computed for
FingerprintUser(queryId) == queryId.md5[2].user

\* C38: the context the handler of POST /query passes on, and the fingerprint
\* computed from it, carry the id and role of the authenticated user whatever
\* user field the body's context holds; requests of users with different ids
\* get different cache keys; and a request answered from the cache is
\* answered with an entry stored for a request of the same user.
C38_FingerprintBindsUser ==
  /\ [][\A c \in CallIds, body \in UserBodies, user \in UserPool :
          request(c, body, user) =>
            /\ calls'[c].context.user = user
            /\ FingerprintUser(calls'[c].queryId) = user
       ]_vars
  /\ [](\A c1, c2 \in CallIds :
          ( /\ calls[c1].pc /= "idle" /\ calls[c2].pc /= "idle"
            /\ calls[c1].context.user.id /= calls[c2].context.user.id )
          => cacheKey(calls[c1].queryId) /= cacheKey(calls[c2].queryId))
  /\ [](\A c \in CallIds :
          (calls[c].pc = "done" /\ calls[c].ret.source = "cache") =>
            \E c1 \in CallIds \ {c} :
              /\ calls[c1].pc /= "idle"
              /\ calls[c1].queryId = calls[c].queryId
              /\ calls[c1].context.user = calls[c].context.user)

\* the result of one user's request is in the store, and the same query
\* from the other user, the rest of the context equal, missed it and was
\* answered by a backend
C38_Witness ==
  \E c \in CallIds \ {1} :
    /\ calls[c - 1].pc = "done"
    /\ Holds(IF isConnected THEN "redis" ELSE "memory", cacheKey(calls[c - 1].queryId))
    /\ calls[c].pc = "done"
    /\ calls[c].query = calls[c - 1].query
    /\ Remove(calls[c].context, "user") = Remove(calls[c - 1].context, "user")
    /\ calls[c].context.user.id /= calls[c - 1].context.user.id
    /\ ~calls[c].cached.found
    /\ calls[c].ret.source \in {"deepseek", "phi3"}

====
